---- MODULE Spec2Model ----
(***************************************************************************)
(* Request execution core of the template scanning engine: the DNS and the *)
(* network (raw TCP) ExecuteWithResults, their payload worker pools, the   *)
(* port scan, the visited-address set and the results channel.             *)
(*                                                                         *)
(* Goroutines of one execution: the errgroup goroutine ("main", variable   *)
(* pc), one worker per payload variant (variable wk), the closing          *)
(* goroutine (variable closerPc), and the consumer of the results channel. *)
(* The channel is unbuffered: a send is a rendezvous with the consumer, so *)
(* a sender sits at its send position until the consumer receives.         *)
(***************************************************************************)
EXTENDS Integers, Sequences, FiniteSets, TLC

\* ------------------------------------------------------------- bounds
\* mappings a payload iterator yields, and workers of one execution
MaxPayloads == 2
\* values of request.Threads and of options.PayloadConcurrency: 1..MaxThreads
MaxThreads == 2
\* candidate ports of a template
MaxPorts == 2
\* address entries of a template
MaxAddresses == 2
\* changes of options.PayloadConcurrency during one execution
MaxKnobChanges == 1
\* calls of executeAddress of one execution without a generator
MaxRuns == 4
\* inputs of a network template
MaxInputs == 2
\* requests made one after the other against the same Progress
MaxCalls == 2

VARIABLES
    request,            \* the compiled template request (read-only while executing)
    target,             \* the caller's target context: [ok, port]
    openSet,            \* ports of the target host that accept a TCP connect
    options,            \* options.Options: [PayloadConcurrency, DisableClustering]
    knobChanges,        \* how often PayloadConcurrency was changed so far
    pc,                 \* position of the errgroup goroutine
    retErr,             \* what the errgroup function returned ("none" = nil)
    iterIdx,            \* mappings the payload iterator has yielded so far
    shouldFollowGlobal, \* local of the pool owner
    swgSize,            \* swg.Size
    resizeTo,           \* argument of the swg.Resize call in progress
    wk,                 \* payload workers: [pc, ret]
    multiErr,           \* number of errors appended to multiErr
    events,             \* executeAddress: events appended by the workers
    tevents,            \* executeOnTarget: events
    sendQ,              \* onResult: events still to be sent
    callsite,           \* which call of executeOnTarget is running
    inputPort,          \* port of the (cloned) input context
    ports,              \* result of getOpenPorts
    portIdx,            \* position in `for _, port := range ports`
    addrIdx,            \* position in `for _, kv := range request.addresses`
    visitedAddresses,   \* visited map of one execution
    closerPc,           \* position of the closing goroutine
    closedCount,        \* how often close(results) ran
    panicked,           \* a send on the closed channel happened
    rcv,                \* envelopes the consumer received, per kind
    tail,               \* kind of the envelope received last
    execLog,            \* history: addresses executeAddress was called for
    targetLog,          \* history: calls of executeOnTarget, [port, input]
    nProbes,            \* history: dials of the port scan
    scanErrs,           \* getOpenPorts: len(errs)
    nOk,                \* history: variant executions that returned an event
    nErr,               \* history: pool variants that returned an error
    nDispatched,        \* history: variants handed to a worker
    progress,           \* options.Progress: [requests, failed]
    nUnresolved,        \* history: variants aborted for an unresolved variable
    nTransient,         \* history: variants whose dial or send failed
    ex,                 \* one request on its own: its inputs, what happened on
                        \* the wire, what it returned
    auth,               \* the file auth provider: the secrets file, the provider
                        \* built from it, the last lookup
    lay,                \* the variable layers of one request: which layers define
                        \* a key, the merged mappings, the event
    cap,                \* the input loop of one network request: the mappings it
                        \* reads and writes, input by input, and the event
    rd,                 \* one call of ConnReadNWithTimeout: n, what conn.Read
                        \* gave, what the call returned
    ctxs,               \* the contextargs.Context objects of one network
                        \* execution: the caller's target and its clones
    din,                \* the input of one DNS execution: the host, the query
                        \* type, the domain parseDNSInput made of them
    mx,                 \* the mutex of one worker pool: its holder, where each
                        \* worker is, who wrote the accumulators and how
    http,               \* builds of one HTTP request generator: the template
                        \* data, the caller's payload map, what Make returned
    inst                \* the template installer: the archive entry or the
                        \* directory at hand, the .checksum file, the result

vars == <<request, target, openSet, options, knobChanges, pc, retErr, iterIdx,
          shouldFollowGlobal, swgSize, resizeTo, wk, multiErr, events, tevents,
          sendQ, callsite, inputPort, ports, portIdx, addrIdx, visitedAddresses,
          closerPc, closedCount, panicked, rcv, tail, execLog, targetLog, nProbes,
          scanErrs, nOk, nErr, nDispatched, progress, nUnresolved, nTransient,
          ex, auth, lay, cap, rd, ctxs, din, mx, http, inst>>

configVars == <<request, target, openSet>>
chanVars == <<closedCount, panicked, rcv, tail>>
poolVars == <<iterIdx, shouldFollowGlobal, swgSize, resizeTo, wk, multiErr, events>>
scanVars == <<targetLog, nProbes, scanErrs>>
netVars == <<tevents, callsite, inputPort, ports, portIdx, addrIdx,
             visitedAddresses, execLog, scanVars>>
callVars == <<progress, nUnresolved, nTransient>>
histVars == <<nOk, nErr, nDispatched, callVars>>

\* value of a variable of a component that the behaviour at hand leaves out
Idle == "idle"
\* components examined on their own, outside an execution
firstUnits == <<auth, lay, cap, rd>>
moreUnits == <<ctxs, din, mx, http, inst>>
unitVars == <<firstUnits, moreUnits>>

Workers == 1..MaxPayloads

\* ---------------------------------------------------------- helpers

\* reserved ports of UseNetworkPort: an input port among them is replaced by
\* the template's port, any other input port is kept
reservedPorts == {80, 443, 8080, 8443, 8081, 53}

\* ports an input string can carry: none (0), a reserved one, a custom one
InputPorts == {0, 80, 9000}

\* input.UseNetworkPort(port, request.ExcludePorts) on an input whose port is
\* `inPort`: the port of the input afterwards
UseNetworkPort(inPort, port) ==
    IF inPort = 0 \/ inPort \in reservedPorts THEN port ELSE inPort

\* replacer.Replace(kv.address, variables): "{{Hostname}}" is the input's
\* host:port (0: the input has no port), "{{Host}}:p" is the host with port p.
\* The host is the same in both, so an address is identified by its port.
ActualAddress(kv, inPort) ==
    IF kv.port = 0 THEN inPort ELSE kv.port

\* faulty variant: every candidate port is returned, open or not
getOpenPortsUnfiltered == request.ports

\* getOpenPorts
getOpenPorts ==
    IF Len(request.ports) = 1
    THEN request.ports
    ELSE SelectSeq(request.ports,
                   LAMBDA p : target.ok /\ UseNetworkPort(target.port, p) \in openSet)

\* faulty variant: a single candidate port is dialled as well
getOpenPortsDialsAlways ==
    IF ~target.ok THEN 0 ELSE Len(request.ports)

\* getOpenPorts: the dials of the scan; a port whose input has no address is
\* not dialled
getOpenPortsDials ==
    IF Len(request.ports) = 1 \/ ~target.ok THEN 0 ELSE Len(request.ports)

\* faulty variant: only the last probe error is kept
getOpenPortsErrsLastOnly ==
    IF Len(request.ports) = 1 \/ Len(getOpenPorts) = Len(request.ports) THEN 0 ELSE 1

\* getOpenPorts: len(errs), one error for every port that is not appended
getOpenPortsErrs ==
    IF Len(request.ports) = 1 THEN 0 ELSE Len(request.ports) - Len(getOpenPorts)

\* workers that hold a slot of the pool (swg.Add returned, swg.Done not yet)
InFlight == Cardinality({w \in Workers : wk[w].pc \in {"run", "send"}})

\* faulty variants of swg.Add: the semaphore hands out one slot too few; it
\* never blocks
SwgAddOffByOne == InFlight + 1 < swgSize
SwgAddNeverBlocks == TRUE

\* swg.Add can return: a slot of the semaphore is free
SwgAddEnabled == InFlight < swgSize

\* faulty variants of swg.Wait: it does not wait; it returns at the first error
SwgWaitNoWait == TRUE
SwgWaitUntilFirstError ==
    \/ \A w \in Workers : wk[w].pc \in {"idle", "done"}
    \/ multiErr > 0

\* swg.Wait can return: every worker called swg.Done
SwgWaitEnabled == \A w \in Workers : wk[w].pc \in {"idle", "done"}

\* swg.Resize(size) can return: growing is immediate, shrinking acquires the
\* difference from the semaphore, i.e. waits until at most `size` slots are held
SwgResizeEnabled == resizeTo >= swgSize \/ InFlight <= resizeTo

\* results <- envelope, received by the consumer; a send on a closed channel panics
Deliver(kind) ==
    IF closedCount > 0
    THEN /\ panicked' = TRUE
         /\ UNCHANGED <<rcv, tail, closedCount>>
    ELSE /\ rcv' = [rcv EXCEPT ![kind] = @ + 1]
         /\ tail' = kind
         /\ UNCHANGED <<panicked, closedCount>>

IdleWorkers == [w \in Workers |-> [pc |-> "idle", ret |-> "none"]]

\* faulty variant: the abort for an unresolved variable returns an error
DnsExecuteReturnUnresolvedIsError(out) ==
    IF out = "response" THEN "event"
    ELSE "err"

\* what DNS execute returns on each of its paths
DnsOutcomes == {"make_error", "resolver_unresolved", "request_unresolved",
                "send_error", "response"}
DnsExecuteReturn(out) ==
    CASE out = "make_error" -> "err"
      [] out = "resolver_unresolved" -> "nil"
      [] out = "request_unresolved" -> "nil"
      [] out = "send_error" -> "err"
      [] OTHER -> "event"

\* what executeRequestWithPayloads returns on each of its paths
NetOutcomes == {"dial_error", "evaluate_error", "unresolved", "decode_error",
                "write_error", "read_error", "event", "interactsh"}
NetExecuteReturn(out) ==
    CASE out = "event" -> "event"
      [] out = "interactsh" -> "nil"
      [] OTHER -> "err"

\* what one call leaves behind: the value returned, the dial, write, read,
\* Take and Do calls in the order they were made, and the increments of the
\* two Progress counters
Returned(ret, wire, failed, requests) ==
    [ret |-> ret, wire |-> wire, failed |-> failed, requests |-> requests]

\* faulty variant: a failed send is counted as failed and as a request
executeSendErrorCountedTwice(out) ==
    IF out \in {"make_error"}
    THEN Returned(DnsExecuteReturn(out), <<>>, 1, 0)
    ELSE IF out \in {"resolver_unresolved", "request_unresolved"}
    THEN Returned(DnsExecuteReturn(out), <<>>, 0, 0)
    ELSE IF out = "send_error"
    THEN Returned(DnsExecuteReturn(out), <<"take", "send">>, 1, 1)
    ELSE Returned(DnsExecuteReturn(out), <<"take", "send">>, 0, 1)

\* faulty variant: a failed send is not counted
executeSendErrorNotCounted(out) ==
    IF out \in {"make_error"}
    THEN Returned(DnsExecuteReturn(out), <<>>, 1, 0)
    ELSE IF out \in {"resolver_unresolved", "request_unresolved"}
    THEN Returned(DnsExecuteReturn(out), <<>>, 0, 0)
    ELSE IF out = "send_error"
    THEN Returned(DnsExecuteReturn(out), <<"take", "send">>, 0, 0)
    ELSE Returned(DnsExecuteReturn(out), <<"take", "send">>, 0, 1)

\* DNS execute
execute(out) ==
    IF out = "make_error"
    THEN Returned(DnsExecuteReturn(out), <<>>, 1, 0)
    ELSE IF out = "resolver_unresolved"
    THEN Returned(DnsExecuteReturn(out), <<>>, 0, 0)
    ELSE IF out = "request_unresolved"
    THEN Returned(DnsExecuteReturn(out), <<>>, 0, 0)
    ELSE IF out = "send_error"
    THEN Returned(DnsExecuteReturn(out), <<"take", "send">>, 1, 0)
    ELSE Returned(DnsExecuteReturn(out), <<"take", "send">>, 0, 1)

\* an input of a network template: its encoding is hex, its read length is > 0
Inputs == [hex : BOOLEAN, read : BOOLEAN]

\* what can go wrong in executeRequestWithPayloads and at which input (0: not
\* at an input); a plain input is never decoded, an input without a read
\* length is never read
NetFaults(inputs) ==
    {[kind |-> k, at |-> 0] : k \in {"dial_error", "event", "interactsh"}}
    \cup {[kind |-> k, at |-> i] :
            k \in {"evaluate_error", "unresolved", "write_error"},
            i \in 1..Len(inputs)}
    \cup {[kind |-> "decode_error", at |-> i] :
            i \in {j \in 1..Len(inputs) : inputs[j].hex}}
    \cup {[kind |-> "read_error", at |-> i] :
            i \in {j \in 1..Len(inputs) : inputs[j].read}}

\* faulty variant: the input is written before it is checked for unresolved
\* variables
RECURSIVE writeInputsCheckAfterWrite(_, _, _, _)
writeInputsCheckAfterWrite(inputs, i, fault, wire) ==
    IF i > Len(inputs)
    THEN Returned(NetExecuteReturn(fault.kind), Append(wire, "read"), 0, 1)
    ELSE IF fault.at # i
    THEN writeInputsCheckAfterWrite(inputs, i + 1, fault,
            wire \o (IF inputs[i].read THEN <<"write", "read">> ELSE <<"write">>))
    ELSE IF fault.kind = "evaluate_error"
    THEN Returned(NetExecuteReturn(fault.kind), wire, 1, 0)
    ELSE IF fault.kind = "decode_error"
    THEN Returned(NetExecuteReturn(fault.kind), wire, 1, 0)
    ELSE IF fault.kind = "write_error"
    THEN Returned(NetExecuteReturn(fault.kind), Append(wire, "write"), 1, 0)
    ELSE IF fault.kind = "unresolved"
    THEN Returned(NetExecuteReturn(fault.kind), Append(wire, "write"), 0, 0)
    ELSE Returned(NetExecuteReturn(fault.kind), wire \o <<"write", "read">>, 0, 0)

\* executeRequestWithPayloads: `for _, input := range request.Inputs` from
\* input i on, then the final read and the event
RECURSIVE writeInputs(_, _, _, _)
writeInputs(inputs, i, fault, wire) ==
    IF i > Len(inputs)
    THEN Returned(NetExecuteReturn(fault.kind), Append(wire, "read"), 0, 1)
    ELSE IF fault.at # i
    THEN writeInputs(inputs, i + 1, fault,
            wire \o (IF inputs[i].read THEN <<"write", "read">> ELSE <<"write">>))
    ELSE IF fault.kind = "evaluate_error"
    THEN Returned(NetExecuteReturn(fault.kind), wire, 1, 0)
    ELSE IF fault.kind = "unresolved"
    THEN Returned(NetExecuteReturn(fault.kind), wire, 0, 0)
    ELSE IF fault.kind = "decode_error"
    THEN Returned(NetExecuteReturn(fault.kind), wire, 1, 0)
    ELSE IF fault.kind = "write_error"
    THEN Returned(NetExecuteReturn(fault.kind), Append(wire, "write"), 1, 0)
    ELSE Returned(NetExecuteReturn(fault.kind), wire \o <<"write", "read">>, 0, 0)

\* executeRequestWithPayloads: the dial, then the inputs
executeRequestWithPayloads(inputs, fault) ==
    IF fault.kind = "dial_error"
    THEN Returned(NetExecuteReturn(fault.kind), <<"dial">>, 1, 0)
    ELSE writeInputs(inputs, 1, fault, <<"dial">>)

\* the transient I/O errors: the DNS send, the dial and the write
Transient == {"send_error", "dial_error", "write_error"}

\* the aborts for an unresolved variable
Unresolved == {"resolver_unresolved", "request_unresolved", "unresolved"}

\* the counters after a call whose outcome was `kind` and which returned r
Counted(kind, r) ==
    /\ progress' = [requests |-> progress.requests + r.requests,
                    failed |-> progress.failed + r.failed]
    /\ nUnresolved' = IF kind \in Unresolved THEN nUnresolved + 1 ELSE nUnresolved
    /\ nTransient' = IF kind \in Transient THEN nTransient + 1 ELSE nTransient

\* faulty variant: a worker sends its own error as an error envelope
EventKindErrorPerVariant(ret) ==
    IF ret = "event" THEN "event" ELSE IF ret = "err" THEN "error" ELSE "nil"

\* the envelope kind of a worker's return value
EventKind(ret) == IF ret = "event" THEN "event" ELSE "nil"

\* the key of the visited map: the resolved address
VisitedKey(actualAddress, tls) == actualAddress

\* faulty variant: the missing port goes unnoticed
NoPortNeverFound(actualAddress) == FALSE

\* !strings.Contains(actualAddress, ":")
NoPort(actualAddress) == actualAddress = 0

\* faulty variant: the negation of DisableClustering is lost
VisitedNegationLost(actualAddress, tls) ==
    /\ actualAddress \in visitedAddresses
    /\ options.DisableClustering

\* visited.Has(actualAddress) && !request.options.Options.DisableClustering
Visited(actualAddress, tls) ==
    /\ VisitedKey(actualAddress, tls) \in visitedAddresses
    /\ ~options.DisableClustering

\* faulty variant: the error of executeAddress is ignored
AddressEventsErrorIgnored(sofar, evs, errs) == sofar \o evs

\* executeOnTarget after executeAddress returned (evs, err): an error replaces
\* the events of the address by one event with an empty response
AddressEvents(sofar, evs, errs) ==
    IF errs > 0 THEN Append(sofar, "empty") ELSE sofar \o evs

\* ------------------------------------------------------------- Init

\* address entries of a template: "{{Hostname}}" (port 0 here), "{{Host}}:1",
\* and "tls://{{Hostname}}"
AddressEntries == {[port |-> 0, tls |-> FALSE], [port |-> 1, tls |-> FALSE],
                   [port |-> 0, tls |-> TRUE]}

RECURSIVE SeqsUpTo(_, _)
SeqsUpTo(S, n) ==
    IF n = 0 THEN {<<>>}
    ELSE LET shorter == SeqsUpTo(S, n - 1)
         IN shorter \cup {Append(s, x) : s \in {t \in shorter : Len(t) = n - 1}, x \in S}

PortLists == {[i \in 1..k |-> i] : k \in 0..MaxPorts}

DnsRequests ==
    [proto : {"dns"}, Threads : 1..MaxThreads, nPayloads : 0..MaxPayloads,
     ports : {<<>>}, addresses : {<<>>}, inputs : {<<>>}]

\* the templates of an execution have one input, hex encoded and with a read
\* length: every step of the input loop can fail on it
NetRequests ==
    [proto : {"network"}, Threads : 1..MaxThreads, nPayloads : 0..MaxPayloads,
     ports : PortLists, addresses : SeqsUpTo(AddressEntries, MaxAddresses) \ {<<>>},
     inputs : {<<[hex |-> TRUE, read |-> TRUE]>>}]

NoExec ==
    [proto |-> "none", inputs |-> <<>>, calls |-> 0,
     fault |-> [kind |-> "none", at |-> 0],
     res |-> Returned("none", <<>>, 0, 0)]

\* ------------------------------------------------- file auth provider

\* secrets of a secrets file
MaxSecrets == 2

\* Texts of addresses and of declared domains: a host (two names, an IPv6
\* literal in brackets, the same literal bare), its letter case, a port
\* (0 = none) and surrounding white space.
Hosts == {"a", "b", "[v6]", "v6"}
TextPorts == {0, 80, 443, 8080}
Text(h, u, p, pad) == [host |-> h, upper |-> u, port |-> p, pad |-> pad]
Addrs == {Text(h, u, p, FALSE) : h \in Hosts, u \in BOOLEAN, p \in TextPorts}
DeclaredDomains ==
    {Text("a", FALSE, 0, FALSE), Text("a", TRUE, 0, TRUE),
     Text("[v6]", FALSE, 0, FALSE), Text("v6", FALSE, 0, FALSE)}

\* strings.TrimSpace, strings.EqualFold, strings.Contains(s, ":")
TrimSpace(t) == [t EXCEPT !.pad = FALSE]
EqualFold(s, t) == [s EXCEPT !.upper = FALSE] = [t EXCEPT !.upper = FALSE]
ContainsColon(t) == t.port # 0 \/ t.host \in {"[v6]", "v6"}

\* net.SplitHostPort: a text without a port is an error ("missing port"), a
\* bare IPv6 literal is one too ("too many colons"), and the brackets of a
\* bracketed literal are not part of the host returned
SplitHostPort(t) ==
    IF t.port = 0 \/ t.host = "v6"
    THEN [err |-> TRUE, host |-> t, port |-> 0]
    ELSE [err |-> FALSE,
          host |-> Text(IF t.host = "[v6]" THEN "v6" ELSE t.host, t.upper, 0, t.pad),
          port |-> t.port]

\* regular expressions of a secret: one matching the host a in either case,
\* one matching every text, one that does not compile
Regexes == {"(?i)^a", ".*", "("}
Compiles(re) == re # "("
MatchString(re, t) == re = ".*" \/ (re = "(?i)^a" /\ t.host = "a")

\* A secret: the verdict of its Validate, its Domains, its DomainsRegex.
\* GetStrategy of the i-th secret of the file is i; the nil strategy is 0.
Secrets ==
    [valid : BOOLEAN,
     Domains : {<<>>} \cup {<<d>> : d \in DeclaredDomains},
     DomainsRegex : {<<>>} \cup {<<re>> : re \in Regexes}]

\* A secrets file: unreadable, or a list of secrets
Files ==
    {[readable |-> FALSE, secrets |-> <<>>]} \cup
    [readable : {TRUE}, secrets : SeqsUpTo(Secrets, MaxSecrets)]

\* Go maps: nil until made; an entry of a key replaces the entry it had
NilMap == [made |-> FALSE, entries |-> {}]
Make(m) == [m EXCEPT !.made = TRUE]
Put(m, k, v) ==
    [made |-> TRUE,
     entries |-> {e \in m.entries : e.key # k} \cup {[key |-> k, val |-> v]}]

\* init, the loop over secret.DomainsRegex: a compiled expression is a new
\* pointer, and so a new key; an expression that does not compile is skipped
RECURSIVE compileAll(_, _, _, _)
compileAll(m, regexes, i, j) ==
    IF j > Len(regexes) THEN m
    ELSE compileAll(IF Compiles(regexes[j])
                    THEN Put(m, [sec |-> i, idx |-> j, re |-> regexes[j]], i)
                    ELSE Make(m),
                    regexes, i, j + 1)

\* init, the loop over secret.Domains
RECURSIVE indexAll(_, _, _, _)
indexAll(m, domains, i, j) ==
    IF j > Len(domains) THEN m
    ELSE indexAll(Put(m, TrimSpace(domains[j]), i), domains, i, j + 1)

\* init, from the i-th secret on
RECURSIVE init(_, _)
init(f, i) ==
    IF i > Len(f.store) THEN f
    ELSE init([f EXCEPT !.compiled = compileAll(@, f.store[i].DomainsRegex, i, 1),
                        !.domains = indexAll(@, f.store[i].Domains, i, 1)],
              i + 1)

NoProvider(err) ==
    [provider |-> FALSE, err |-> err, store |-> <<>>,
     compiled |-> NilMap, domains |-> NilMap]

\* faulty variant: only the first secret is validated
NewFileAuthProviderFirstOnly(file) ==
    IF ~file.readable THEN NoProvider("read")
    ELSE IF Len(file.secrets) = 0 THEN NoProvider("ErrNoSecrets")
    ELSE IF ~file.secrets[1].valid THEN NoProvider("invalid")
    ELSE init([NoProvider("nil") EXCEPT !.provider = TRUE, !.store = file.secrets], 1)

NewFileAuthProvider(file) ==
    IF ~file.readable THEN NoProvider("read")
    ELSE IF Len(file.secrets) = 0 THEN NoProvider("ErrNoSecrets")
    ELSE IF \E i \in 1..Len(file.secrets) : ~file.secrets[i].valid
         THEN NoProvider("invalid")
    ELSE init([NoProvider("nil") EXCEPT !.provider = TRUE, !.store = file.secrets], 1)

\* LookupAddr, the default normalization for host:port
NormalizedAddr(addr) ==
    IF ContainsColon(addr)
    THEN LET r == SplitHostPort(addr)
         IN IF ~r.err /\ r.port \in {80, 443} THEN r.host ELSE addr
    ELSE addr

DomainHits(f, addr) ==
    {e \in f.domains.entries : EqualFold(e.key, NormalizedAddr(addr))}
PatternHits(f, addr) ==
    {e \in f.compiled.entries : MatchString(e.key.re, NormalizedAddr(addr))}

\* faulty variant: the patterns are asked before the exact domains
LookupAddrPatternsFirst(f, addr) ==
    IF PatternHits(f, addr) # {} THEN {e.val : e \in PatternHits(f, addr)}
    ELSE IF DomainHits(f, addr) # {} THEN {e.val : e \in DomainHits(f, addr)}
    ELSE {0}

\* LookupAddr: the strategies a call can return. Both indexes are Go maps and
\* a range over a map visits its entries in an order that is not specified:
\* the entry returned is any entry that matches.
LookupAddr(f, addr) ==
    IF DomainHits(f, addr) # {} THEN {e.val : e \in DomainHits(f, addr)}
    ELSE IF PatternHits(f, addr) # {} THEN {e.val : e \in PatternHits(f, addr)}
    ELSE {0}

\* ------------------------------------------------------ variable layers

\* The mappings of a request are followed for one key. A layer that defines
\* the key gives it a value that names the layer.
Keys == {"k"}
LayerMap(defined, layer) ==
    IF layer \in defined THEN [k \in Keys |-> layer] ELSE <<>>

\* generators.MergeMaps: a new mapping, a later argument replaces the value an
\* earlier one gave to a key, a nil mapping counts as empty
RECURSIVE MergeMaps(_)
MergeMaps(maps) ==
    IF maps = <<>> THEN <<>>
    ELSE LET front == MergeMaps(SubSeq(maps, 1, Len(maps) - 1))
             last == maps[Len(maps)]
         IN [k \in DOMAIN front \cup DOMAIN last |->
                IF k \in DOMAIN last THEN last[k] ELSE front[k]]

\* layers every executor merges, and the layers of each
DnsLayers ==
    {"defaults", "metadata", "options", "ctx", "variables", "constants", "payload",
     "response", "previous"}
NetLayers ==
    {"defaults", "ctx", "variables", "constants", "Hostname", "payload", "options",
     "response", "previous", "captured"}
HttpLayers == {"dynamic", "defaults", "options", "payload"}

\* DNS ExecuteWithResults: vars before the payload is merged
DnsVariables(defined, hasCtx) ==
    LET dnsVars == LayerMap(defined, "defaults")
        optionVars == LayerMap(defined, "options")
        merged == IF hasCtx
                  THEN MergeMaps(<<dnsVars, LayerMap(defined, "metadata"), optionVars,
                                   LayerMap(defined, "ctx")>>)
                  ELSE dnsVars
        variablesMap == LayerMap(defined, "variables")
    IN MergeMaps(<<merged, variablesMap, LayerMap(defined, "constants")>>)

\* DNS ExecuteWithResults: the mapping handed to execute
DnsValue(defined, hasCtx) ==
    MergeMaps(<<DnsVariables(defined, hasCtx), LayerMap(defined, "payload")>>)

\* faulty variant: the template context is merged after the constants
executeOnTargetVariablesCtxLast(defined, hasCtx) ==
    LET variables == LayerMap(defined, "defaults")
        variablesMap == LayerMap(defined, "variables")
        merged == MergeMaps(<<variablesMap, variables, LayerMap(defined, "constants")>>)
    IN IF hasCtx THEN MergeMaps(<<merged, LayerMap(defined, "ctx")>>) ELSE merged

\* network executeOnTarget: variables
executeOnTargetVariables(defined, hasCtx) ==
    LET variables == LayerMap(defined, "defaults")
        merged == IF hasCtx
                  THEN MergeMaps(<<variables, LayerMap(defined, "ctx")>>)
                  ELSE variables
        variablesMap == LayerMap(defined, "variables")
    IN MergeMaps(<<variablesMap, merged, LayerMap(defined, "constants")>>)

\* network executeAddress and executeRequestWithPayloads: interimValues
interimValues(defined, hasCtx) ==
    LET variables == MergeMaps(<<executeOnTargetVariables(defined, hasCtx),
                                 LayerMap(defined, "Hostname")>>)
        payloads == LayerMap(defined, "options")
        value == MergeMaps(<<LayerMap(defined, "payload"), payloads>>)
    IN MergeMaps(<<variables, value>>)

\* HTTP Make and makeHTTPRequestFromModel: finalValues
finalValues(defined) ==
    LET values == MergeMaps(<<MergeMaps(<<LayerMap(defined, "dynamic"),
                                          LayerMap(defined, "defaults")>>),
                              LayerMap(defined, "options")>>)
        generatorValues == LayerMap(defined, "payload")
    IN MergeMaps(<<generatorValues, values>>)

\* DNS execute: the event
DnsOutputEvent(defined, hasCtx, newVars) ==
    LET outputEvent == MergeMaps(<<LayerMap(defined, "response"),
                                   LayerMap(defined, "previous"), newVars>>)
    IN IF hasCtx
       THEN MergeMaps(<<outputEvent, LayerMap(defined, "ctx")>>)
       ELSE outputEvent

\* network executeRequestWithPayloads: the event
NetOutputEvent(defined, hasCtx, interim) ==
    LET response == LayerMap(defined, "response")
        outputEvent == IF hasCtx
                       THEN MergeMaps(<<response, LayerMap(defined, "ctx")>>)
                       ELSE response
        payloads == MergeMaps(<<LayerMap(defined, "payload"),
                                LayerMap(defined, "options")>>)
    IN MergeMaps(<<payloads, outputEvent, LayerMap(defined, "previous"), interim,
                   LayerMap(defined, "captured")>>)

NoLayers ==
    [phase |-> "idle", proto |-> "none", hasCtx |-> FALSE, defined |-> {},
     base |-> <<>>, vars |-> <<>>, event |-> <<>>]

\* ---------------------------------------------- captures of the input loop

\* keys of the request's mappings: capture names, names of internal
\* extractors and names of variables are drawn from the same keys
CapKeys == {"x", "y"}

\* An input of the loop: its capture name ("" = none), whether Read > 0, and
\* the internal extractors that find a value in the bytes read after it
\* (none when the request has no operators).
CapInputs ==
    {in \in [Name : CapKeys \cup {""}, Read : BOOLEAN,
             extracted : {{}} \cup {{k} : k \in CapKeys}] :
        ~in.Read => in.extracted = {}}

\* a mapping that gives the value v to the keys of ks
ConstMap(ks, v) == [k \in ks |-> v]
\* m[k] = v of a Go map
MapSet(m, k, v) == [x \in DOMAIN m \cup {k} |-> IF x = k THEN v ELSE m[x]]

\* for k, v := range values { payloads[k] = v }
RECURSIVE MapSetAll(_, _, _)
MapSetAll(m, ks, v) ==
    IF ks = {} THEN m
    ELSE LET k == CHOOSE x \in ks : TRUE
         IN MapSetAll(MapSet(m, k, v), ks \ {k}, v)

\* string(buffer) of the bytes read after the i-th input, and the value an
\* internal extractor takes from them
Bytes(i) == [kind |-> "bytes", of |-> i]
Extracted(i) == [kind |-> "extracted", of |-> i]

\* faulty variant: the bytes are bound in inputEvents only
inputStepEventOnly(c) ==
    LET i == c.i + 1
        input == c.inputs[i]
        evaluated == [c EXCEPT !.i = i, !.seen = Append(@, c.interimValues)]
    IN IF ~input.Read THEN evaluated
       ELSE [evaluated EXCEPT
                !.inputEvents = IF input.Name # "" THEN MapSet(@, input.Name, Bytes(i))
                                ELSE @,
                !.payloads = MapSetAll(@, input.extracted, Extracted(i))]

\* One round of the loop over request.Inputs, without a failure: the data
\* is evaluated against interimValues, written, and when Read > 0 the bytes
\* read are bound under the capture name and handed to the internal
\* extractors.
inputStep(c) ==
    LET i == c.i + 1
        input == c.inputs[i]
        evaluated == [c EXCEPT !.i = i, !.seen = Append(@, c.interimValues)]
    IN IF ~input.Read THEN evaluated
       ELSE [evaluated EXCEPT
                !.inputEvents = IF input.Name # "" THEN MapSet(@, input.Name, Bytes(i))
                                ELSE @,
                !.interimValues = IF input.Name # "" THEN MapSet(@, input.Name, Bytes(i))
                                  ELSE @,
                !.payloads = MapSetAll(@, input.extracted, Extracted(i))]

\* the event after the loop: the response fields, the template context and
\* previous (outputEvent), then interimValues, then inputEvents, all of it
\* merged over payloads
captureEvent(c) ==
    MergeMaps(<<c.payloads, c.outputEvent, c.interimValues, c.inputEvents>>)

NoCapture ==
    [phase |-> "idle", inputs |-> <<>>, i |-> 0, interimValues |-> <<>>,
     inputEvents |-> <<>>, payloads |-> <<>>, outputEvent |-> <<>>,
     seen |-> <<>>, event |-> <<>>]

\* ------------------------------------------------ ConnReadNWithTimeout

\* read lengths asked for: -1 (all), 0 (default), 1..MaxRead
MaxRead == 2
\* n = 0: the default buffer size
DefaultBufferSize == 4096

\* bytes are followed by their number; a nil slice is told from an empty one
Slice(len) == [isNil |-> FALSE, len |-> len]
NilSlice == [isNil |-> TRUE, len |-> 0]

\* conn.Read(b): up to len(b) bytes, with no error, a timeout or another error
ReadOutcomes(len) == [count : 0..len, err : {"nil", "timeout", "other"}]

\* reader.ConnReadNWithTimeout(conn, -1, timeout) of the utils library:
\* anything a reader can return
ReadAllOutcomes ==
    {[bytes |-> NilSlice, err |-> e] : e \in {"nil", "timeout", "other"}} \cup
    {[bytes |-> Slice(l), err |-> e] : l \in 0..MaxRead, e \in {"nil", "timeout", "other"}}

\* faulty variant: a timeout is an error also when bytes were read
ConnReadNWithTimeoutNoPartial(n, read) ==
    IF read.err # "nil" THEN [bytes |-> NilSlice, err |-> read.err]
    ELSE [bytes |-> Slice(read.count), err |-> "nil"]

\* ConnReadNWithTimeout for n >= 0, given what conn.Read(b) returned for the
\* buffer b of n bytes (of DefaultBufferSize bytes for n = 0)
ConnReadNWithTimeout(n, read) ==
    IF read.err # "nil" /\ read.err = "timeout" /\ read.count > 0
    THEN [bytes |-> Slice(read.count), err |-> "nil"]
    ELSE IF read.err # "nil" THEN [bytes |-> NilSlice, err |-> read.err]
    ELSE [bytes |-> Slice(read.count), err |-> "nil"]

BufferLen(n) == IF n = 0 THEN DefaultBufferSize ELSE n

NoRead ==
    [phase |-> "idle", n |-> 0, read |-> [count |-> 0, err |-> "nil"],
     res |-> [bytes |-> NilSlice, err |-> "nil"]]

\* ------------------------------------------------ target contexts

\* A contextargs.Context is an object on the heap; a *contextargs.Context is
\* its position there. Of the object the executor touches MetaInput.Input,
\* of which the port is followed (0: the input carries none).
NewContext(inPort) == [Input |-> inPort]

\* the caller's target: the first object of the heap
Target == 1

\* ctx.Clone(): a new object with a copy of every field
Clone(heap, ref) == Append(heap, heap[ref])

\* ctx.UseNetworkPort(port, request.ExcludePorts) on the object at ref
UseNetworkPortOn(heap, ref, port) ==
    [heap EXCEPT ![ref].Input = UseNetworkPort(@, port)]

\* getOpenPorts: `cloned := target.Clone()` and cloned.UseNetworkPort of one
\* round of the loop; the heap afterwards, the clone is its last object
scanInput(heap, port) ==
    LET cloned == Clone(heap, Target)
    IN UseNetworkPortOn(cloned, Len(cloned), port)

\* faulty variant: the port is set on the target itself
portInputNoClone(heap, port) ==
    Clone(UseNetworkPortOn(heap, Target, port), Target)

\* ExecuteWithResults: `input := target.Clone()` and input.UseNetworkPort of
\* one round of the loop; the heap afterwards, the clone is its last object
portInput(heap, port) ==
    LET input == Clone(heap, Target)
    IN UseNetworkPortOn(input, Len(input), port)

NoContexts ==
    [phase |-> "idle", ports |-> <<>>, before |-> NewContext(0), heap |-> <<>>,
     i |-> 0, open |-> <<>>, used |-> <<>>]

\* ------------------------------------------------ the input of a DNS request

\* Host texts: an IPv4 or an IPv6 literal, a name with or without its
\* trailing dot, the empty string; arpa marks the reverse-lookup name of an
\* address
DnsTexts ==
    [kind : {"ip4", "ip6"}, dot : {FALSE}, arpa : {FALSE}]
    \cup [kind : {"name"}, dot : BOOLEAN, arpa : {FALSE}]
    \cup [kind : {"empty"}, dot : {FALSE}, arpa : {FALSE}]

\* MetaInput.Input of a DNS target: the text itself, or a URL with the text
\* as its host; a URL may fail to parse
DnsInputs ==
    [url : {FALSE}, parses : {TRUE}, host : DnsTexts]
    \cup [url : {TRUE}, parses : BOOLEAN, host : DnsTexts \ [kind : {"empty"}, dot : {FALSE}, arpa : {FALSE}]]

\* query types of a DNS request
QuestionTypes == {"A", "PTR", "TXT"}

\* iputil.IsIP
IsIP(t) == t.kind \in {"ip4", "ip6"} /\ ~t.dot /\ ~t.arpa

\* dns.ReverseAddr of an address: "4.3.2.1.in-addr.arpa." or the ip6.arpa name
ReverseAddr(t) == [kind |-> t.kind, dot |-> TRUE, arpa |-> TRUE]

\* dns.Fqdn: the text with a trailing dot, added when it had none
Fqdn(t) == [t EXCEPT !.dot = TRUE]

\* extractDomain: "" when the URL does not parse, else its host name
extractDomain(in) ==
    IF ~in.parses THEN [kind |-> "empty", dot |-> FALSE, arpa |-> FALSE] ELSE in.host

\* ExecuteWithResults: the domain handed to parseDNSInput
InputDomain(in) == IF in.url THEN extractDomain(in) ELSE in.host

\* faulty variant: an address is a name like any other
parseDNSInputAcceptsIP(question, host) ==
    IF question = "PTR" /\ IsIP(host)
    THEN [host |-> ReverseAddr(host), err |-> "nil"]
    ELSE [host |-> Fqdn(host), err |-> "nil"]

\* parseDNSInput
parseDNSInput(question, host) ==
    LET isIP == IsIP(host) IN
    IF question = "PTR" /\ isIP
    THEN [host |-> ReverseAddr(host), err |-> "nil"]
    ELSE IF isIP
         THEN [host |-> [kind |-> "empty", dot |-> FALSE, arpa |-> FALSE],
               err |-> "cannot use IP address as DNS input"]
         ELSE [host |-> Fqdn(host), err |-> "nil"]

NoDnsInput ==
    [phase |-> "idle", question |-> "A",
     input |-> [url |-> FALSE, parses |-> TRUE,
                host |-> [kind |-> "empty", dot |-> FALSE, arpa |-> FALSE]],
     domain |-> [kind |-> "empty", dot |-> FALSE, arpa |-> FALSE]]

\* ------------------------------------------------ the mutex of a worker pool

\* Positions of a worker goroutine: "execute" (inside request.execute or
\* executeRequestWithPayloads: the Take, the dial, the writes and reads),
\* "lock" (at m.Lock()), "append" (at the statement on multiErr or events),
\* "unlock" (at m.Unlock()), "send" (at the send on the results channel),
\* "done"
WorkerPositions == {"execute", "lock", "append", "unlock", "send", "done"}

\* the positions at which a goroutine is suspended until the network, the
\* rate limiter or the consumer lets it go on
SuspensionPoints == {"execute", "send"}

\* faulty variant: the DNS worker unlocks in a deferred call, after its send
workerNextDeferredUnlock(proto, at, err) ==
    CASE at = "execute" ->
            IF proto = "dns" THEN (IF err THEN "lock" ELSE "send") ELSE "lock"
      [] at = "lock" -> "append"
      [] at = "append" -> IF proto = "dns" THEN "send" ELSE "unlock"
      [] at = "unlock" -> "done"
      [] at = "send" -> IF err THEN "unlock" ELSE "done"
      [] OTHER -> "done"

\* the position a worker goes to from `at`; err: its request returned an error
workerNext(proto, at, err) ==
    CASE at = "execute" ->
            IF proto = "dns" THEN (IF err THEN "lock" ELSE "send") ELSE "lock"
      [] at = "lock" -> "append"
      [] at = "append" -> "unlock"
      [] at = "unlock" -> IF proto = "dns" THEN "send" ELSE "done"
      [] at = "send" -> "done"
      [] OTHER -> "done"

NoMutex ==
    [phase |-> "idle", proto |-> "dns", holder |-> 0,
     w |-> [k \in Workers |-> [at |-> "done", err |-> FALSE, access |-> "none"]],
     multiErr |-> 0, events |-> 0]

\* ------------------------------------------------ the HTTP request builder

\* characters of template data
MaxData == 5
\* builds of one generator, one after the other
MaxBuilds == 2

\* Template data is a sequence of tokens: "B" is {{BaseURL}}, "P" is {{p}},
\* the payload named p, "M" is the {{interactsh-url}} marker, "1" is a digit,
\* ":" and "/" are themselves, "h" is a host name, "GET" a method, "'" a
\* quote. "u1", "u2", ... are the URLs the interactsh client hands out, each
\* of them once.
Digits == {"1"}
DataChars == {"B", ":", "/"} \cup Digits
OastURLs == <<"u1", "u2", "u3", "u4", "u5", "u6", "u7", "u8", "u9", "u10",
              "u11", "u12", "u13", "u14", "u15", "u16">>

MinOf(S) == CHOOSE x \in S : \A y \in S : x <= y

\* strings.Index: the first position of sub in s, 0 when there is none
Index(s, sub) ==
    LET hits == {j \in 1..(Len(s) - Len(sub) + 1) :
                    SubSeq(s, j, j + Len(sub) - 1) = sub}
    IN IF hits = {} THEN 0 ELSE MinOf(hits)

\* strings.Replace(s, old, "", 1): s without the first occurrence of old
ReplaceFirst(s, old) ==
    LET at == Index(s, old)
    IN IF at = 0 THEN s
       ELSE SubSeq(s, 1, at - 1) \o SubSeq(s, at + Len(old), Len(s))

\* urlWithPortRegex.FindAllStringSubmatch(data, -1): where `{{BaseURL}}:(\d+)`
\* matches
Matches(data) ==
    {i \in 1..(Len(data) - 2) :
        data[i] = "B" /\ data[i + 1] = ":" /\ data[i + 2] \in Digits}

\* the digits \d+ takes from position j on: as many as there are
DigitsFrom(data, j) ==
    LET last == CHOOSE e \in j..Len(data) :
                    /\ \A m \in j..e : data[m] \in Digits
                    /\ e = Len(data) \/ data[e + 1] \notin Digits
    IN SubSeq(data, j, last)

\* a parsed URL: host and port ("" is <<>>)
ParseTarget(inPort) == [host |-> <<"h">>, port |-> inPort]

\* url.UpdatePort
UpdatePort(parsed, port) == [parsed EXCEPT !.port = port]

\* url.String()
URLString(parsed) ==
    IF parsed.port = <<>> THEN parsed.host ELSE parsed.host \o <<":">> \o parsed.port

\* UsePortFromPayload
UsePortFromPayload(parsed, data) ==
    LET matches == Matches(data) IN
    IF matches # {}
    THEN LET port == DigitsFrom(data, MinOf(matches) + 2)
         IN [parsed |-> UpdatePort(parsed, port),
             data |-> ReplaceFirst(data, <<":">> \o port)]
    ELSE [parsed |-> parsed, data |-> data]

\* addParamsToBaseURL, for an input without parameters and without a trailing
\* slash and template data that is {{BaseURL}} and a clean path: the merge
\* adds nothing and GetRelativePath gives the path back
addParamsToBaseURL(data, parsed) == [data |-> data, parsed |-> parsed]

\* a value of a mapping: Go type and text
Value(type, text) == [type |-> type, text |-> text]

\* values a payload named p can have: the integer 1, the string "1", the marker
PayloadValues == {Value("int", <<"1">>), Value("string", <<"1">>),
                  Value("string", <<"M">>)}

\* types.ToString
TypesToString(v) == Value("string", v.text)

\* Interactsh.ReplaceMarkers(text, urls): every marker is replaced by a URL
\* that was not handed out before; gen counts the URLs handed out
RECURSIVE ReplaceMarkers(_, _, _)
ReplaceMarkers(text, urls, gen) ==
    IF text = <<>> THEN [text |-> <<>>, urls |-> urls, gen |-> gen]
    ELSE IF Head(text) = "M"
    THEN LET rest == ReplaceMarkers(Tail(text), Append(urls, OastURLs[gen + 1]), gen + 1)
         IN [rest EXCEPT !.text = <<OastURLs[gen + 1]>> \o @]
    ELSE LET rest == ReplaceMarkers(Tail(text), urls, gen)
         IN [rest EXCEPT !.text = <<Head(text)>> \o @]

\* expressions.Evaluate(data, values): {{BaseURL}} and {{p}} are replaced by
\* the text of their values, a name without a value stays
RECURSIVE Evaluate(_, _)
Evaluate(data, values) ==
    IF data = <<>> THEN <<>>
    ELSE LET name == IF Head(data) = "B" THEN "BaseURL"
                     ELSE IF Head(data) = "P" THEN "p" ELSE ""
         IN (IF name \in DOMAIN values THEN values[name].text ELSE <<Head(data)>>)
                \o Evaluate(Tail(data), values)

\* utils.GenerateVariablesWithURL
GenerateVariablesWithURL(parsed) ==
    [BaseURL |-> Value("string", URLString(parsed))]

\* faulty variant: the value written back is the quoted text
stringifyPayloadsQuoting(payloads) ==
    [name \in DOMAIN payloads |-> Value("string", <<"'">> \o payloads[name].text)]

\* Make without an interactsh client: every value of the caller's payloads is
\* replaced by its string
stringifyPayloads(payloads) ==
    [name \in DOMAIN payloads |-> TypesToString(payloads[name])]

\* Make with an interactsh client: the markers of the data, then of every
\* value of the caller's payloads; r.interactshURLs starts empty
replacePayloadMarkers(data, payloads, gen) ==
    LET d == ReplaceMarkers(data, <<>>, gen) IN
    IF "p" \in DOMAIN payloads
    THEN LET v == ReplaceMarkers(TypesToString(payloads["p"]).text, d.urls, d.gen)
         IN [data |-> d.text, payloads |-> [p |-> Value("string", v.text)],
             urls |-> v.urls, gen |-> v.gen]
    ELSE [data |-> d.text, payloads |-> payloads, urls |-> d.urls, gen |-> d.gen]

\* a template request: its kind ("model", "raw", or "unsafe": raw with the
\* unsafe flag), whether an interactsh client is set, the value of its header
\* X (<<>>: it has no header); its method is GET, it has no body
Kinds == {"model", "raw", "unsafe"}
Templates == [kind : Kinds, interactsh : BOOLEAN, header : {<<>>, <<"P">>, <<"M">>}]

NilValues == [isNil |-> TRUE, m |-> <<>>]
Values(m) == [isNil |-> FALSE, m |-> m]

\* fillRequest: the header of the template, marker and expressions replaced;
\* r.request.Body is empty. The headers of a request are a set of pairs.
\* Left out: the random User-Agent of setHeader, the fixed Accept and
\* Accept-Language headers, and the digest authentication wrapper.
fillRequest(tpl, req, values, urls, gen) ==
    IF tpl.header = <<>>
    THEN [req |-> req, urls |-> urls, gen |-> gen]
    ELSE LET h == IF tpl.interactsh THEN ReplaceMarkers(tpl.header, urls, gen)
                  ELSE [text |-> tpl.header, urls |-> urls, gen |-> gen]
         IN [req |-> [req EXCEPT !.headers =
                                    {[name |-> "X", value |-> Evaluate(h.text, values)]}],
             urls |-> h.urls, gen |-> h.gen]

\* retryablehttp.NewRequestWithContext(ctx, method, url, body): the Host is
\* the host and port of the URL
NewRequest(method, url, body) ==
    [method |-> method, url |-> url, headers |-> {}, host |-> url, body |-> body]

\* the generatedRequest of a build, and what was used to make it
Generated(req, isRaw, meta, dynamicValues, urls, used, gen) ==
    [request |-> req, isRaw |-> isRaw, meta |-> meta,
     dynamicValues |-> dynamicValues, interactshURLs |-> urls,
     used |-> used, gen |-> gen]

\* makeHTTPRequestFromModel
makeHTTPRequestFromModel(tpl, data, values, generatorValues, urls, gen) ==
    LET d == IF tpl.interactsh THEN ReplaceMarkers(data, urls, gen)
             ELSE [text |-> data, urls |-> urls, gen |-> gen]
        final == MergeMaps(<<generatorValues, values>>)
        req == NewRequest(<<"GET">>, Evaluate(d.text, final), <<>>)
        filled == fillRequest(tpl, req, final, d.urls, d.gen)
    IN Generated(filled.req, FALSE, generatorValues, Values(final),
                 filled.urls, final, filled.gen)

\* makeHTTPRequestFromRaw and handleRawWithPayloads; raw.Parse takes method,
\* URL, headers and body from the text of the request and the base URL: the
\* request is followed as that text and that URL
makeHTTPRequestFromRaw(tpl, baseURL, data, values, payloads, urls, gen) ==
    LET d == IF tpl.interactsh THEN ReplaceMarkers(data, urls, gen)
             ELSE [text |-> data, urls |-> urls, gen |-> gen]
        final == MergeMaps(<<payloads, values>>)
        rawRequest == Evaluate(d.text, final)
        rawRequestData == NewRequest(<<"GET">>, baseURL, rawRequest)
    IN IF tpl.kind = "unsafe"
       THEN Generated(rawRequestData, TRUE, payloads, NilValues, d.urls, final, d.gen)
       ELSE LET filled == fillRequest(tpl, rawRequestData, final, d.urls, d.gen)
            IN Generated(filled.req, FALSE, payloads, Values(final),
                         filled.urls, final, filled.gen)

\* Make of a request that is not self-contained: the generatedRequest, the
\* caller's payloads as the call leaves them, the arguments and results of
\* UsePortFromPayload
HttpMake(tpl, inPort, data, payloads, dynamicValues, gen) ==
    LET marked == IF tpl.interactsh
                  THEN replacePayloadMarkers(data, payloads, gen)
                  ELSE [data |-> data, payloads |-> stringifyPayloads(payloads),
                        urls |-> <<>>, gen |-> gen]
        parsed == ParseTarget(inPort)
        isRawRequest == tpl.kind # "model"
        ported == UsePortFromPayload(parsed, marked.data)
        added == IF isRawRequest THEN ported
                 ELSE addParamsToBaseURL(ported.data, ported.parsed)
        values == MergeMaps(<<MergeMaps(<<dynamicValues,
                                          GenerateVariablesWithURL(added.parsed)>>),
                              <<>> >>)
        generated ==
            IF isRawRequest
            THEN makeHTTPRequestFromRaw(tpl, URLString(added.parsed), added.data,
                                        values, marked.payloads, marked.urls, marked.gen)
            ELSE makeHTTPRequestFromModel(tpl, added.data, values, marked.payloads,
                                          marked.urls, marked.gen)
    IN [generated |-> generated, payloads |-> marked.payloads,
        port |-> [parsed |-> parsed, data |-> marked.data, out |-> ported]]

NoBuilds ==
    [phase |-> "idle", tpl |-> [kind |-> "model", interactsh |-> FALSE, header |-> <<>>],
     inPort |-> <<>>, data |-> <<>>, original |-> <<>>, payloads |-> <<>>,
     dynamicValues |-> <<>>, reuse |-> FALSE, gen |-> 0, builds |-> <<>>]

\* ------------------------------------------------ the template installer

\* files of a template directory
MaxFiles == 2
\* path elements of an archive entry after its root directory
MaxDepth == 3

\* File paths and checksums are texts, i.e. sequences of characters; neither
\* holds a comma, a space or a line break.
PathNames == <<"a", "b", "c", "d">>
FilePaths == {<<PathNames[i]>> : i \in 1..MaxFiles}
Checksums == {<<"x">>, <<"y">>}

\* checksum maps of a directory: map[filePath]checksum
ChecksumMaps ==
    UNION {[S -> Checksums] : S \in SUBSET FilePaths}

\* the orders in which `for k, v := range checksumMap` can visit a map
RangeOrders(m) ==
    {order \in SeqsUpTo(DOMAIN m, Cardinality(DOMAIN m)) :
        /\ Len(order) = Cardinality(DOMAIN m)
        /\ \A i, j \in 1..Len(order) : i # j => order[i] # order[j]}

\* writeChecksumFileInDir: the bytes written to .checksum when the map is
\* ranged over in the given order
RECURSIVE writeChecksumFileInDir(_, _)
writeChecksumFileInDir(checksumMap, order) ==
    IF order = <<>> THEN <<>>
    ELSE Head(order) \o <<",">> \o checksumMap[Head(order)]
            \o writeChecksumFileInDir(checksumMap, Tail(order))

\* strings.Split(s, sep) for a separator of one character
RECURSIVE Split(_, _)
Split(s, sep) ==
    LET at == Index(s, <<sep>>)
    IN IF at = 0 THEN <<s>>
       ELSE <<SubSeq(s, 1, at - 1)>> \o Split(SubSeq(s, at + 1, Len(s)), sep)

\* strings.TrimSpace of a text
RECURSIVE TrimSpaceText(_)
TrimSpaceText(s) ==
    IF s # <<>> /\ Head(s) \in {" ", "\n"} THEN TrimSpaceText(Tail(s))
    ELSE IF s # <<>> /\ s[Len(s)] \in {" ", "\n"}
    THEN TrimSpaceText(SubSeq(s, 1, Len(s) - 1))
    ELSE s

\* getChecksumFromDir: the loop over the lines of the file, from line i on
RECURSIVE readChecksumLines(_, _, _)
readChecksumLines(allChecksums, lines, i) ==
    IF i > Len(lines) THEN allChecksums
    ELSE LET v == TrimSpaceText(lines[i])
             tmparr == Split(v, ",")
         IN IF Len(tmparr) # 2
            THEN readChecksumLines(allChecksums, lines, i + 1)
            ELSE readChecksumLines(MapSet(allChecksums, tmparr[1], tmparr[2]),
                                   lines, i + 1)

\* getChecksumFromDir when the .checksum file exists and can be read
getChecksumFromDir(checksums) ==
    readChecksumLines(<<>>, Split(checksums, "\n"), 1)

\* Paths are sequences of elements. The template directory is
\* /home/templates; the ignore file lives in the configuration directory.
TemplateDir == <<"home", "templates">>
IgnoreFilePath == <<"home", ".config", ".nuclei-ignore">>

\* elements of the relative path of an archive entry
EntryNames == {"..", "a", "templates-x", ".git", "README.md", ".nuclei-ignore"}

\* an archive entry: the elements of its uri after the root directory (none:
\* the uri is the root directory and its separator), whether the uri has a
\* separator at all, whether it is a directory
Entries ==
    [rel : SeqsUpTo(EntryNames, MaxDepth), rooted : {TRUE}, isDir : BOOLEAN]
    \cup [rel : {<<n>> : n \in EntryNames}, rooted : {FALSE}, isDir : BOOLEAN]

\* f.Name(): the last element of the uri
EntryName(e) == IF e.rel = <<>> THEN "root" ELSE e.rel[Len(e.rel)]

\* strings.HasPrefix on two elements
NameHasPrefix(name, prefix) ==
    \/ name = prefix
    \/ prefix = "templates" /\ name = "templates-x"
    \/ prefix = "." /\ name \in {"..", ".git", ".nuclei-ignore"}
    \/ prefix = ".git" /\ name = ".git"

\* filepath.Clean(filepath.Join(dir, rel)): ".." leaves the directory it is
\* in, the root has no parent
RECURSIVE CleanJoin(_, _)
CleanJoin(dir, rel) ==
    IF rel = <<>> THEN dir
    ELSE IF Head(rel) = ".."
    THEN CleanJoin(IF dir = <<>> THEN dir ELSE SubSeq(dir, 1, Len(dir) - 1), Tail(rel))
    ELSE CleanJoin(Append(dir, Head(rel)), Tail(rel))

\* strings.HasPrefix(newPath, templatedir) on the texts of two clean paths:
\* the elements before the last of templatedir are those of newPath, the
\* last is the head of the element at its place
PathHasPrefix(newPath, templatedir) ==
    /\ Len(newPath) >= Len(templatedir)
    /\ \A i \in 1..(Len(templatedir) - 1) : newPath[i] = templatedir[i]
    /\ NameHasPrefix(newPath[Len(templatedir)], templatedir[Len(templatedir)])

\* what getAbsoluteFilePath returns and does: the path ("" is skip), and the
\* folder it creates
Skipped == [skip |-> TRUE, path |-> <<>>, created |-> <<>>]
Written(path) == [skip |-> FALSE, path |-> path, created |-> <<>>]
Created(path) == [skip |-> TRUE, path |-> <<>>, created |-> path]

\* getAbsoluteFilePath
getAbsoluteFilePath(templatedir, e) ==
    IF EntryName(e) = ".nuclei-ignore" THEN Written(IgnoreFilePath)
    ELSE IF NameHasPrefix(EntryName(e), ".") \/ EntryName(e) = "README.md"
    THEN Skipped
    ELSE IF ~e.rooted THEN Written(CleanJoin(templatedir, e.rel))
    ELSE IF e.rel # <<>> /\ NameHasPrefix(e.rel[1], ".git") THEN Skipped
    ELSE LET newPath == CleanJoin(templatedir, e.rel) IN
         IF ~PathHasPrefix(newPath, templatedir) THEN Skipped
         ELSE IF e.rel # <<>> /\ e.isDir THEN Created(newPath)
         ELSE Written(newPath)

NoInstall ==
    [phase |-> "idle", checksumMap |-> <<>>, file |-> <<>>, allChecksums |-> <<>>,
     entry |-> [rel |-> <<>>, rooted |-> TRUE, isDir |-> TRUE],
     res |-> Skipped, written |-> {}]

NoAuth ==
    [phase |-> "idle", file |-> [readable |-> FALSE, secrets |-> <<>>],
     f |-> NoProvider("nil"), looked |-> FALSE,
     addr |-> Text("a", FALSE, 0, FALSE), result |-> 0]

FirstIdle ==
    /\ auth = Idle
    /\ lay = Idle
    /\ cap = Idle
    /\ rd = Idle

MoreIdle ==
    /\ ctxs = Idle
    /\ din = Idle
    /\ mx = Idle
    /\ http = Idle
    /\ inst = Idle

UnitsIdle == FirstIdle /\ MoreIdle

\* calls of executeAddress a template can ask for: addresses x ports
AddressRuns(req) ==
    Len(req.addresses) * (IF Len(req.ports) = 0 THEN 1 ELSE Len(req.ports))

\* the ports of the target host that the template's candidate ports lead to:
\* the ones whose state (open or not) the execution can depend on
ProbedPorts(req, tgt) ==
    IF Len(req.ports) >= 1 /\ tgt.ok
    THEN {UseNetworkPort(tgt.port, req.ports[i]) : i \in 1..Len(req.ports)}
    ELSE {}

InitRun ==
    /\ knobChanges = 0
    /\ pc = "start"
    /\ retErr = "none"
    /\ iterIdx = 0
    /\ shouldFollowGlobal = FALSE
    /\ swgSize = 0
    /\ resizeTo = 0
    /\ wk = IdleWorkers
    /\ multiErr = 0
    /\ events = <<>>
    /\ tevents = <<>>
    /\ sendQ = <<>>
    /\ callsite = "none"
    /\ inputPort = target.port
    /\ ports = <<>>
    /\ portIdx = 0
    /\ addrIdx = 0
    /\ visitedAddresses = {}
    /\ closerPc = "wait"
    /\ closedCount = 0
    /\ panicked = FALSE
    /\ rcv = [event |-> 0, nil |-> 0, empty |-> 0, error |-> 0]
    /\ tail = "none"
    /\ execLog = <<>>
    /\ targetLog = <<>>
    /\ nProbes = 0
    /\ scanErrs = 0
    /\ nOk = 0
    /\ nErr = 0
    /\ nDispatched = 0
    /\ progress = [requests |-> 0, failed |-> 0]
    /\ nUnresolved = 0
    /\ nTransient = 0

\* Fields that the execution never reads are fixed: Threads and
\* PayloadConcurrency without a generator, the template of an unparsable input.
InitDns ==
    /\ request \in DnsRequests
    /\ target \in [ok : BOOLEAN, port : {0}]
    /\ openSet = {}
    /\ options \in [PayloadConcurrency : 1..MaxThreads, DisableClustering : {FALSE}]
    /\ (request.nPayloads = 0 \/ ~target.ok) =>
            (request.Threads = 1 /\ options.PayloadConcurrency = 1)
    /\ ~target.ok => request.nPayloads = 0
    /\ ex = Idle
    /\ UnitsIdle
    /\ InitRun

\* Network templates without a generator: every combination of ports, address
\* entries, input port, open ports and clustering, up to MaxRuns address runs.
InitNetScan ==
    /\ request \in NetRequests
    /\ request.nPayloads = 0
    /\ request.Threads = 1
    /\ AddressRuns(request) <= MaxRuns
    /\ target \in [ok : BOOLEAN, port : InputPorts]
    /\ openSet \in SUBSET ProbedPorts(request, target)
    /\ options \in [PayloadConcurrency : {1}, DisableClustering : BOOLEAN]
    /\ ~target.ok =>
            /\ Len(request.addresses) = 1
            /\ target.port = 0
            /\ ~options.DisableClustering
    /\ ex = Idle
    /\ UnitsIdle
    /\ InitRun

\* Network templates with a generator: the workers of one execution number at
\* most MaxPayloads, the input has no port and every probed port is open.
\* The clustering flag is read together with the visited set, which is empty
\* at the only address of a template with one address and at most one port:
\* the flag is fixed there. The TLS flag of an entry selects the dialer and
\* nothing else: the entries of these templates are plain.
InitNetPool ==
    /\ request \in NetRequests
    /\ request.nPayloads > 0
    /\ request.nPayloads * AddressRuns(request) <= MaxPayloads
    /\ target = [ok |-> TRUE, port |-> 0]
    /\ openSet = ProbedPorts(request, target)
    /\ options \in [PayloadConcurrency : 1..MaxThreads, DisableClustering : BOOLEAN]
    /\ AddressRuns(request) = 1 => ~options.DisableClustering
    /\ \A i \in 1..Len(request.addresses) : ~request.addresses[i].tls
    /\ ex = Idle
    /\ UnitsIdle
    /\ InitRun

InitNet == InitNetScan \/ InitNetPool

Init == InitDns \/ InitNet

\* ------------------------------------------------- the worker pool

\* The environment changes the global PayloadConcurrency option. The executors
\* read the option when a pool is created and at the check point of every
\* iteration, so a change at any other moment is seen as a change at the
\* loop head that follows it.
SetPayloadConcurrency ==
    /\ pc = "iter"
    /\ knobChanges < MaxKnobChanges
    /\ \E v \in 1..MaxThreads :
        /\ v # options.PayloadConcurrency
        /\ options' = [options EXCEPT !.PayloadConcurrency = v]
    /\ knobChanges' = knobChanges + 1
    /\ UNCHANGED <<configVars, ex, unitVars, pc, retErr, poolVars, sendQ, netVars, closerPc,
                   chanVars, histVars>>

\* faulty variant: the loop has no resize check point
CheckpointWithoutResize ==
    /\ pc = "iter"
    /\ pc' = IF iterIdx = request.nPayloads THEN "wait" ELSE "add"
    /\ UNCHANGED <<configVars, ex, unitVars, options, knobChanges, retErr, poolVars, sendQ,
                   netVars, closerPc, chanVars, histVars>>

\* iterator.Value() and the resize check point
Checkpoint ==
    /\ pc = "iter"
    /\ IF iterIdx = request.nPayloads
       THEN pc' = "wait" /\ UNCHANGED resizeTo
       ELSE IF shouldFollowGlobal /\ swgSize # options.PayloadConcurrency
            THEN pc' = "resize" /\ resizeTo' = options.PayloadConcurrency
            ELSE pc' = "add" /\ UNCHANGED resizeTo
    /\ UNCHANGED <<configVars, ex, unitVars, options, knobChanges, retErr, iterIdx,
                   shouldFollowGlobal, swgSize, wk, multiErr, events, sendQ,
                   netVars, closerPc, chanVars, histVars>>

\* swg.Resize returns
Resize ==
    /\ pc = "resize"
    /\ SwgResizeEnabled
    /\ swgSize' = resizeTo
    /\ pc' = "add"
    /\ UNCHANGED <<configVars, ex, unitVars, options, knobChanges, retErr, iterIdx,
                   shouldFollowGlobal, resizeTo, wk, multiErr, events, sendQ,
                   netVars, closerPc, chanVars, histVars>>

\* faulty variant: the mappings are handed to the workers last first
SwgAddLastFirst ==
    /\ pc = "add"
    /\ SwgAddEnabled
    /\ wk' = [wk EXCEPT ![request.nPayloads - iterIdx] = [pc |-> "run", ret |-> "none"]]
    /\ iterIdx' = iterIdx + 1
    /\ nDispatched' = nDispatched + 1
    /\ pc' = "iter"
    /\ UNCHANGED <<configVars, ex, unitVars, options, knobChanges, retErr, shouldFollowGlobal,
                   swgSize, resizeTo, multiErr, events, sendQ, netVars, closerPc,
                   chanVars, nOk, nErr, callVars>>

\* swg.Add() and the go statement
SwgAdd ==
    /\ pc = "add"
    /\ SwgAddEnabled
    /\ wk' = [wk EXCEPT ![iterIdx + 1] = [pc |-> "run", ret |-> "none"]]
    /\ iterIdx' = iterIdx + 1
    /\ nDispatched' = nDispatched + 1
    /\ pc' = "iter"
    /\ UNCHANGED <<configVars, ex, unitVars, options, knobChanges, retErr, shouldFollowGlobal,
                   swgSize, resizeTo, multiErr, events, sendQ, netVars, closerPc,
                   chanVars, nOk, nErr, callVars>>

\* onResult: one blocking send of the errgroup goroutine
OnResult ==
    /\ pc = "onresult"
    /\ Deliver(Head(sendQ))
    /\ sendQ' = Tail(sendQ)
    /\ IF Len(sendQ) > 1
       THEN UNCHANGED <<pc, portIdx>>
       ELSE IF request.proto = "dns"
            THEN pc' = "ret" /\ UNCHANGED portIdx
            ELSE IF callsite = "portless"
                 THEN pc' = "scan" /\ UNCHANGED portIdx
                 ELSE pc' = "port" /\ portIdx' = portIdx + 1
    /\ UNCHANGED <<configVars, ex, unitVars, options, knobChanges, retErr, poolVars, tevents,
                   callsite, inputPort, ports, addrIdx, visitedAddresses, execLog,
                   scanVars, closerPc, histVars>>

\* ----------------------------------------------------------- DNS

DnsStart ==
    /\ pc = "start"
    /\ request.proto = "dns"
    /\ IF ~target.ok
       THEN /\ retErr' = "build"
            /\ pc' = "ret"
            /\ UNCHANGED <<shouldFollowGlobal, swgSize>>
       ELSE IF request.nPayloads = 0
            THEN /\ pc' = "single"
                 /\ UNCHANGED <<retErr, shouldFollowGlobal, swgSize>>
            ELSE /\ shouldFollowGlobal' = (request.Threads = options.PayloadConcurrency)
                 /\ swgSize' = request.Threads
                 /\ pc' = "iter"
                 /\ UNCHANGED retErr
    /\ UNCHANGED <<configVars, ex, unitVars, options, knobChanges, iterIdx, resizeTo, wk,
                   multiErr, events, sendQ, netVars, closerPc, chanVars, histVars>>

\* the worker calls request.execute and records its error under the mutex
DnsWorkerExecute(w) ==
    /\ request.proto = "dns"
    /\ wk[w].pc = "run"
    /\ \E out \in DnsOutcomes :
        LET r == execute(out)
            ret == r.ret
        IN
        /\ wk' = [wk EXCEPT ![w] = [pc |-> "send", ret |-> ret]]
        /\ multiErr' = IF ret = "err" THEN multiErr + 1 ELSE multiErr
        /\ nOk' = IF ret = "event" THEN nOk + 1 ELSE nOk
        /\ nErr' = IF ret = "err" THEN nErr + 1 ELSE nErr
        /\ Counted(out, r)
    /\ UNCHANGED <<configVars, ex, unitVars, options, knobChanges, pc, retErr, iterIdx,
                   shouldFollowGlobal, swgSize, resizeTo, events, sendQ, netVars,
                   closerPc, chanVars, nDispatched>>

\* results <- protocols.Result{Event: event}, then the deferred swg.Done
DnsWorkerSend(w) ==
    /\ request.proto = "dns"
    /\ wk[w].pc = "send"
    /\ Deliver(EventKind(wk[w].ret))
    /\ wk' = [wk EXCEPT ![w].pc = "done"]
    /\ UNCHANGED <<configVars, ex, unitVars, options, knobChanges, pc, retErr, iterIdx,
                   shouldFollowGlobal, swgSize, resizeTo, multiErr, events, sendQ,
                   netVars, closerPc, histVars>>

\* swg.Wait and the return of the errgroup function
DnsWait ==
    /\ request.proto = "dns"
    /\ pc = "wait"
    /\ SwgWaitEnabled
    /\ retErr' = IF multiErr > 0 THEN "multi" ELSE "none"
    /\ pc' = "ret"
    /\ UNCHANGED <<configVars, ex, unitVars, options, knobChanges, poolVars, sendQ, netVars,
                   closerPc, chanVars, histVars>>

\* no generator: one execute on the errgroup goroutine
DnsSingle ==
    /\ pc = "single"
    /\ \E out \in DnsOutcomes :
        LET r == execute(out)
            ret == r.ret
        IN
        /\ Counted(out, r)
        /\ IF ret = "err"
           THEN /\ retErr' = "execute"
                /\ pc' = "ret"
                /\ UNCHANGED <<sendQ, nOk>>
           ELSE /\ sendQ' = <<EventKind(ret)>>
                /\ pc' = "onresult"
                /\ nOk' = IF ret = "event" THEN nOk + 1 ELSE nOk
                /\ UNCHANGED retErr
    /\ UNCHANGED <<configVars, ex, unitVars, options, knobChanges, poolVars, netVars, closerPc,
                   chanVars, nErr, nDispatched>>

\* ------------------------------------------------------- network

\* ExecuteWithResults up to the first call of executeOnTarget or getOpenPorts
NetStart ==
    /\ pc = "start"
    /\ request.proto = "network"
    /\ visitedAddresses' = {}
    /\ IF Len(request.ports) = 0
       THEN /\ callsite' = "portless"
            /\ inputPort' = target.port
            /\ targetLog' = Append(targetLog, [port |-> 0, input |-> target.port])
            /\ pc' = "target"
       ELSE /\ pc' = "scan"
            /\ UNCHANGED <<callsite, inputPort, targetLog>>
    /\ UNCHANGED <<configVars, ex, unitVars, options, knobChanges, retErr, poolVars, tevents,
                   sendQ, ports, portIdx, addrIdx, execLog, nProbes, scanErrs,
                   closerPc, chanVars, histVars>>

\* ports, err := request.getOpenPorts(target) and the two checks after it
NetScan ==
    /\ pc = "scan"
    /\ nProbes' = nProbes + getOpenPortsDials
    /\ scanErrs' = getOpenPortsErrs
    /\ LET open == getOpenPorts IN
       IF Len(open) = 0
       THEN /\ retErr' = IF Len(request.ports) > 0 THEN "portscan" ELSE "none"
            /\ pc' = "ret"
            /\ UNCHANGED <<ports, portIdx>>
       ELSE /\ ports' = open
            /\ portIdx' = 1
            /\ pc' = "port"
            /\ UNCHANGED retErr
    /\ UNCHANGED <<configVars, ex, unitVars, options, knobChanges, poolVars, tevents, sendQ,
                   callsite, inputPort, addrIdx, visitedAddresses, execLog,
                   targetLog, closerPc, chanVars, histVars>>

\* head of `for _, port := range ports`: clone the target, UseNetworkPort
NetPort ==
    /\ pc = "port"
    /\ IF portIdx > Len(ports)
       THEN /\ pc' = "ret"
            /\ UNCHANGED <<callsite, inputPort, targetLog>>
       ELSE /\ inputPort' = IF target.ok
                            THEN UseNetworkPort(target.port, ports[portIdx])
                            ELSE target.port
            /\ targetLog' = Append(targetLog,
                                   [port |-> ports[portIdx], input |-> inputPort'])
            /\ callsite' = "port"
            /\ pc' = "target"
    /\ UNCHANGED <<configVars, ex, unitVars, options, knobChanges, retErr, poolVars, tevents,
                   sendQ, ports, portIdx, addrIdx, visitedAddresses, execLog,
                   nProbes, scanErrs, closerPc, chanVars, histVars>>

\* executeOnTarget up to its loop: getAddress of the input
NetExecuteOnTarget ==
    /\ pc = "target"
    /\ IF ~target.ok
       THEN /\ retErr' = "address"
            /\ progress' = [progress EXCEPT !.failed = @ + 1]
            /\ pc' = "ret"
            /\ UNCHANGED <<addrIdx, tevents>>
       ELSE /\ addrIdx' = 1
            /\ tevents' = <<>>
            /\ pc' = "addr"
            /\ UNCHANGED <<retErr, progress>>
    /\ UNCHANGED <<configVars, ex, unitVars, options, knobChanges, poolVars, sendQ, callsite,
                   inputPort, ports, portIdx, visitedAddresses, execLog, scanVars,
                   closerPc, chanVars, nOk, nErr, nDispatched, nUnresolved,
                   nTransient>>

\* one pass of `for _, kv := range request.addresses`, up to the payload loop
\* or the single request of executeAddress
NetAddress ==
    /\ pc = "addr"
    /\ addrIdx <= Len(request.addresses)
    /\ LET kv == request.addresses[addrIdx]
           actualAddress == ActualAddress(kv, inputPort)
       IN IF Visited(actualAddress, kv.tls)
          THEN /\ addrIdx' = addrIdx + 1
               /\ UNCHANGED <<pc, visitedAddresses, execLog, tevents,
                              shouldFollowGlobal, swgSize, progress>>
          ELSE /\ visitedAddresses' = visitedAddresses \cup {VisitedKey(actualAddress, kv.tls)}
               /\ execLog' = Append(execLog, [address |-> actualAddress, tls |-> kv.tls])
               /\ IF NoPort(actualAddress)
                  THEN /\ tevents' = AddressEvents(tevents, <<>>, 1)
                       /\ progress' = [progress EXCEPT !.failed = @ + 1]
                       /\ addrIdx' = addrIdx + 1
                       /\ UNCHANGED <<pc, shouldFollowGlobal, swgSize>>
                  ELSE IF request.nPayloads = 0
                       THEN /\ pc' = "nsingle"
                            /\ UNCHANGED <<tevents, addrIdx, shouldFollowGlobal,
                                           swgSize, progress>>
                       ELSE /\ shouldFollowGlobal' =
                                   (request.Threads = options.PayloadConcurrency)
                            /\ swgSize' = request.Threads
                            /\ pc' = "iter"
                            /\ UNCHANGED <<tevents, addrIdx, progress>>
    /\ UNCHANGED <<configVars, ex, unitVars, options, knobChanges, retErr, iterIdx, resizeTo,
                   wk, multiErr, events, sendQ, callsite, inputPort, ports, portIdx,
                   scanVars, closerPc, chanVars, nOk, nErr, nDispatched,
                   nUnresolved, nTransient>>

\* executeOnTarget returns its events; onResult(events...) starts
NetReturnEvents ==
    /\ pc = "addr"
    /\ addrIdx > Len(request.addresses)
    /\ IF Len(tevents) > 0
       THEN /\ sendQ' = tevents
            /\ pc' = "onresult"
            /\ UNCHANGED portIdx
       ELSE /\ UNCHANGED sendQ
            /\ IF callsite = "portless"
               THEN pc' = "scan" /\ UNCHANGED portIdx
               ELSE pc' = "port" /\ portIdx' = portIdx + 1
    /\ UNCHANGED <<configVars, ex, unitVars, options, knobChanges, retErr, poolVars, tevents,
                   callsite, inputPort, ports, addrIdx, visitedAddresses, execLog,
                   scanVars, closerPc, chanVars, histVars>>

\* executeAddress without a generator, and what executeOnTarget does with its result
NetSingle ==
    /\ pc = "nsingle"
    /\ \E fault \in NetFaults(request.inputs) :
        LET r == executeRequestWithPayloads(request.inputs, fault)
            ret == r.ret
        IN
        /\ tevents' = AddressEvents(tevents, <<EventKind(ret)>>, IF ret = "err" THEN 1 ELSE 0)
        /\ nOk' = IF ret = "event" THEN nOk + 1 ELSE nOk
        /\ Counted(fault.kind, r)
    /\ addrIdx' = addrIdx + 1
    /\ pc' = "addr"
    /\ UNCHANGED <<configVars, ex, unitVars, options, knobChanges, retErr, poolVars, sendQ,
                   callsite, inputPort, ports, portIdx, visitedAddresses, execLog,
                   scanVars, closerPc, chanVars, nErr, nDispatched>>

\* a worker: executeRequestWithPayloads, the append under the mutex, swg.Done
NetWorkerExecute(w) ==
    /\ request.proto = "network"
    /\ wk[w].pc = "run"
    /\ \E fault \in NetFaults(request.inputs) :
        LET r == executeRequestWithPayloads(request.inputs, fault)
            ret == r.ret
        IN
        /\ wk' = [wk EXCEPT ![w] = [pc |-> "done", ret |-> ret]]
        /\ multiErr' = IF ret = "err" THEN multiErr + 1 ELSE multiErr
        /\ events' = IF ret = "err" THEN events ELSE Append(events, EventKind(ret))
        /\ nOk' = IF ret = "event" THEN nOk + 1 ELSE nOk
        /\ nErr' = IF ret = "err" THEN nErr + 1 ELSE nErr
        /\ Counted(fault.kind, r)
    /\ UNCHANGED <<configVars, ex, unitVars, options, knobChanges, pc, retErr, iterIdx,
                   shouldFollowGlobal, swgSize, resizeTo, sendQ, netVars, closerPc,
                   chanVars, nDispatched>>

\* swg.Wait, `return events, multiErr`, and what executeOnTarget does with them
NetWait ==
    /\ request.proto = "network"
    /\ pc = "wait"
    /\ SwgWaitEnabled
    /\ tevents' = AddressEvents(tevents, events, multiErr)
    /\ wk' = IdleWorkers
    /\ events' = <<>>
    /\ multiErr' = 0
    /\ iterIdx' = 0
    /\ addrIdx' = addrIdx + 1
    /\ pc' = "addr"
    /\ UNCHANGED <<configVars, ex, unitVars, options, knobChanges, retErr, shouldFollowGlobal,
                   swgSize, resizeTo, sendQ, callsite, inputPort, ports, portIdx,
                   visitedAddresses, execLog, scanVars, closerPc, chanVars, histVars>>

\* --------------------------------------------------- closing goroutine

\* errGroup.Wait returns
CloserWait ==
    /\ closerPc = "wait"
    /\ pc = "ret"
    /\ closerPc' = IF retErr # "none" THEN "senderr" ELSE "close"
    /\ UNCHANGED <<configVars, ex, unitVars, options, knobChanges, pc, retErr, poolVars, sendQ,
                   netVars, chanVars, histVars>>

\* results <- protocols.Result{Error: err}
CloserSend ==
    /\ closerPc = "senderr"
    /\ Deliver("error")
    /\ closerPc' = "close"
    /\ UNCHANGED <<configVars, ex, unitVars, options, knobChanges, pc, retErr, poolVars, sendQ,
                   netVars, histVars>>

\* faulty variant: close is not deferred and is skipped after the error was sent
CloserCloseOnSuccessOnly ==
    /\ closerPc = "close"
    /\ closedCount' = IF retErr = "none" THEN closedCount + 1 ELSE closedCount
    /\ closerPc' = "done"
    /\ UNCHANGED <<configVars, ex, unitVars, options, knobChanges, pc, retErr, poolVars, sendQ,
                   netVars, panicked, rcv, tail, histVars>>

\* the deferred close(results)
CloserClose ==
    /\ closerPc = "close"
    /\ closedCount' = closedCount + 1
    /\ closerPc' = "done"
    /\ UNCHANGED <<configVars, ex, unitVars, options, knobChanges, pc, retErr, poolVars, sendQ,
                   netVars, panicked, rcv, tail, histVars>>

\* every step of the goroutines of one execution and of the consumer
Program ==
    \/ Checkpoint
    \/ Resize
    \/ SwgAdd
    \/ OnResult
    \/ DnsStart
    \/ \E w \in Workers : DnsWorkerExecute(w)
    \/ \E w \in Workers : DnsWorkerSend(w)
    \/ DnsWait
    \/ DnsSingle
    \/ NetStart
    \/ NetScan
    \/ NetPort
    \/ NetExecuteOnTarget
    \/ NetAddress
    \/ NetReturnEvents
    \/ NetSingle
    \/ \E w \in Workers : NetWorkerExecute(w)
    \/ NetWait
    \/ CloserWait
    \/ CloserSend
    \/ CloserClose

Next == SetPayloadConcurrency \/ Program

Spec == Init /\ [][Next]_vars

\* The Go scheduler runs every runnable goroutine, the consumer keeps
\* receiving, and every dial, read, send and rate-limiter Take returns: some
\* enabled step of the program is eventually taken.
\* The clustering flag has no part in what blocks; the executions are explored
\* here with clustering enabled, where addresses are both run and skipped.
FairInit == (InitDns \/ InitNetScan \/ InitNetPool) /\ ~options.DisableClustering
FairSpec == FairInit /\ [][Next]_vars /\ WF_vars(Program)

\* ------------------------------------------------- one request on its own

\* everything of an execution except the counters
runVars == <<configVars, options, knobChanges, pc, retErr, poolVars, sendQ,
             netVars, closerPc, chanVars, nOk, nErr, nDispatched>>

NoRequest ==
    [proto |-> "none", Threads |-> 1, nPayloads |-> 0, ports |-> <<>>,
     addresses |-> <<>>, inputs |-> <<>>]

\* A DNS request, or a network request with up to MaxInputs inputs of either
\* encoding, with and without a read length. No execution is running.
ExecInit ==
    /\ request = NoRequest
    /\ target = [ok |-> TRUE, port |-> 0]
    /\ openSet = {}
    /\ options = [PayloadConcurrency |-> 1, DisableClustering |-> FALSE]
    /\ InitRun
    /\ UnitsIdle
    /\ \E proto \in {"dns", "network"} :
        \E inputs \in (IF proto = "dns" THEN {<<>>} ELSE SeqsUpTo(Inputs, MaxInputs)) :
            ex = [NoExec EXCEPT !.proto = proto, !.inputs = inputs]

\* one call of DNS execute
ExecDns ==
    /\ ex.proto = "dns"
    /\ ex.calls < MaxCalls
    /\ \E out \in DnsOutcomes :
        LET r == execute(out) IN
        /\ ex' = [ex EXCEPT !.calls = @ + 1,
                            !.fault = [kind |-> out, at |-> 0],
                            !.res = r]
        /\ Counted(out, r)
    /\ UNCHANGED <<runVars, unitVars>>

\* one call of network executeRequestWithPayloads
ExecNet ==
    /\ ex.proto = "network"
    /\ ex.calls < MaxCalls
    /\ \E fault \in NetFaults(ex.inputs) :
        LET r == executeRequestWithPayloads(ex.inputs, fault) IN
        /\ ex' = [ex EXCEPT !.calls = @ + 1, !.fault = fault, !.res = r]
        /\ Counted(fault.kind, r)
    /\ UNCHANGED <<runVars, unitVars>>

ExecNext == ExecDns \/ ExecNet

ExecSpec == ExecInit /\ [][ExecNext]_vars

\* ------------------------------------------- the auth provider on its own

\* A secrets file of up to MaxSecrets secrets; no provider was built yet.
AuthInit ==
    /\ request = NoRequest
    /\ target = [ok |-> TRUE, port |-> 0]
    /\ openSet = {}
    /\ options = [PayloadConcurrency |-> 1, DisableClustering |-> FALSE]
    /\ InitRun
    /\ ex = Idle
    /\ MoreIdle
    /\ lay = Idle
    /\ cap = Idle
    /\ rd = Idle
    /\ \E file \in Files : auth = [NoAuth EXCEPT !.phase = "new", !.file = file]

\* NewFileAuthProvider(path)
AuthNew ==
    /\ auth.phase = "new"
    /\ auth' = [auth EXCEPT !.phase = "made", !.f = NewFileAuthProvider(auth.file)]
    /\ UNCHANGED <<runVars, callVars, ex, lay, cap, rd, moreUnits>>

\* A call of LookupAddr on the provider. A lookup changes nothing in the
\* provider, so the calls of a provider are independent: one is followed.
AuthLookup ==
    /\ auth.phase = "made"
    /\ auth.f.provider
    /\ ~auth.looked
    /\ \E addr \in Addrs :
        \E strategy \in LookupAddr(auth.f, addr) :
            auth' = [auth EXCEPT !.looked = TRUE, !.addr = addr, !.result = strategy]
    /\ UNCHANGED <<runVars, callVars, ex, lay, cap, rd, moreUnits>>

AuthNext == AuthNew \/ AuthLookup

AuthSpec == AuthInit /\ [][AuthNext]_vars

\* ---------------------------------------- the variable layers on their own

LayersOf(proto) ==
    CASE proto = "dns" -> DnsLayers
      [] proto = "network" -> NetLayers
      [] proto = "http" -> HttpLayers

\* A request of one protocol and the layers that define the key; a template
\* context variable needs a template context.
LayInit ==
    /\ request = NoRequest
    /\ target = [ok |-> TRUE, port |-> 0]
    /\ openSet = {}
    /\ options = [PayloadConcurrency |-> 1, DisableClustering |-> FALSE]
    /\ InitRun
    /\ ex = Idle
    /\ MoreIdle
    /\ auth = Idle
    /\ cap = Idle
    /\ rd = Idle
    /\ \E proto \in {"dns", "network", "http"}, hasCtx \in BOOLEAN :
        \E defined \in SUBSET LayersOf(proto) :
            /\ "ctx" \in defined => hasCtx
            /\ lay = [NoLayers EXCEPT !.phase = "new", !.proto = proto,
                                      !.hasCtx = hasCtx, !.defined = defined]

\* DNS ExecuteWithResults up to the call of execute
LayDns ==
    /\ lay.phase = "new"
    /\ lay.proto = "dns"
    /\ lay' = [lay EXCEPT !.phase = "merged",
                          !.base = DnsVariables(lay.defined, lay.hasCtx),
                          !.vars = DnsValue(lay.defined, lay.hasCtx)]
    /\ UNCHANGED <<runVars, callVars, ex, auth, cap, rd, moreUnits>>

\* network executeOnTarget up to the input loop of executeRequestWithPayloads
LayNet ==
    /\ lay.phase = "new"
    /\ lay.proto = "network"
    /\ lay' = [lay EXCEPT !.phase = "merged",
                          !.base = executeOnTargetVariables(lay.defined, lay.hasCtx),
                          !.vars = interimValues(lay.defined, lay.hasCtx)]
    /\ UNCHANGED <<runVars, callVars, ex, auth, cap, rd, moreUnits>>

\* HTTP Make of a request that is neither raw nor self-contained
LayHttp ==
    /\ lay.phase = "new"
    /\ lay.proto = "http"
    /\ lay' = [lay EXCEPT !.phase = "merged",
                          !.base = finalValues(lay.defined \ {"payload"}),
                          !.vars = finalValues(lay.defined)]
    /\ UNCHANGED <<runVars, callVars, ex, auth, cap, rd, moreUnits>>

\* DNS execute: the event of the response
LayDnsEvent ==
    /\ lay.phase = "merged"
    /\ lay.proto = "dns"
    /\ lay' = [lay EXCEPT !.phase = "emitted",
                          !.event = DnsOutputEvent(lay.defined, lay.hasCtx, lay.vars)]
    /\ UNCHANGED <<runVars, callVars, ex, auth, cap, rd, moreUnits>>

\* network executeRequestWithPayloads: the event of the response
LayNetEvent ==
    /\ lay.phase = "merged"
    /\ lay.proto = "network"
    /\ lay' = [lay EXCEPT !.phase = "emitted",
                          !.event = NetOutputEvent(lay.defined, lay.hasCtx, lay.vars)]
    /\ UNCHANGED <<runVars, callVars, ex, auth, cap, rd, moreUnits>>

LayNext == LayDns \/ LayNet \/ LayHttp \/ LayDnsEvent \/ LayNetEvent

LaySpec == LayInit /\ [][LayNext]_vars

\* ------------------------------------------------ the input loop on its own

\* A network request of up to MaxInputs inputs at the start of its input
\* loop: interimValues is the merge of variables and payloads, inputEvents
\* is empty.
CapInit ==
    /\ request = NoRequest
    /\ target = [ok |-> TRUE, port |-> 0]
    /\ openSet = {}
    /\ options = [PayloadConcurrency |-> 1, DisableClustering |-> FALSE]
    /\ InitRun
    /\ ex = Idle
    /\ MoreIdle
    /\ auth = Idle
    /\ lay = Idle
    /\ rd = Idle
    /\ \E inputs \in SeqsUpTo(CapInputs, MaxInputs) :
        \E vs \in SUBSET CapKeys, ps \in SUBSET CapKeys, os \in SUBSET CapKeys :
            LET variables == ConstMap(vs, [kind |-> "variables", of |-> 0])
                payloads == ConstMap(ps, [kind |-> "payload", of |-> 0])
            IN cap = [NoCapture EXCEPT
                        !.phase = "loop",
                        !.inputs = inputs,
                        !.payloads = payloads,
                        !.interimValues = MergeMaps(<<variables, payloads>>),
                        !.outputEvent = ConstMap(os, [kind |-> "response", of |-> 0])]

\* executeRequestWithPayloads: one round of the input loop
CapInput ==
    /\ cap.phase = "loop"
    /\ cap.i < Len(cap.inputs)
    /\ cap' = inputStep(cap)
    /\ UNCHANGED <<runVars, callVars, ex, auth, lay, rd, moreUnits>>

\* executeRequestWithPayloads: the event after the last input
CapEvent ==
    /\ cap.phase = "loop"
    /\ cap.i = Len(cap.inputs)
    /\ cap' = [cap EXCEPT !.phase = "emitted", !.event = captureEvent(cap)]
    /\ UNCHANGED <<runVars, callVars, ex, auth, lay, rd, moreUnits>>

CapNext == CapInput \/ CapEvent

CapSpec == CapInit /\ [][CapNext]_vars

\* ------------------------------------------------ one read on its own

ReadInit ==
    /\ request = NoRequest
    /\ target = [ok |-> TRUE, port |-> 0]
    /\ openSet = {}
    /\ options = [PayloadConcurrency |-> 1, DisableClustering |-> FALSE]
    /\ InitRun
    /\ ex = Idle
    /\ MoreIdle
    /\ auth = Idle
    /\ lay = Idle
    /\ cap = Idle
    /\ \E n \in -1..MaxRead : rd = [NoRead EXCEPT !.phase = "new", !.n = n]

\* ConnReadNWithTimeout(conn, n, timeout), n >= 0
ReadN ==
    /\ rd.phase = "new"
    /\ rd.n >= 0
    /\ \E read \in ReadOutcomes(BufferLen(rd.n)) :
        rd' = [rd EXCEPT !.phase = "done", !.read = read,
                         !.res = ConnReadNWithTimeout(rd.n, read)]
    /\ UNCHANGED <<runVars, callVars, ex, auth, lay, cap, moreUnits>>

\* ConnReadNWithTimeout(conn, -1, timeout): the call is handed to the reader
\* of the utils library
ReadAll ==
    /\ rd.phase = "new"
    /\ rd.n = -1
    /\ \E res \in ReadAllOutcomes : rd' = [rd EXCEPT !.phase = "done", !.res = res]
    /\ UNCHANGED <<runVars, callVars, ex, auth, lay, cap, moreUnits>>

ReadNext == ReadN \/ ReadAll

ReadSpec == ReadInit /\ [][ReadNext]_vars

\* ------------------------------------------ the target contexts on their own

\* A network template with up to MaxPorts candidate ports and the caller's
\* target, whose input carries no port, a reserved port or a custom one.
CtxInit ==
    /\ request = NoRequest
    /\ target = [ok |-> TRUE, port |-> 0]
    /\ openSet = {}
    /\ options = [PayloadConcurrency |-> 1, DisableClustering |-> FALSE]
    /\ InitRun
    /\ ex = Idle
    /\ FirstIdle
    /\ din = Idle
    /\ mx = Idle
    /\ http = Idle
    /\ inst = Idle
    /\ \E ps \in SeqsUpTo(1..MaxPorts, MaxPorts), inPort \in InputPorts :
        ctxs = [NoContexts EXCEPT !.phase = "start", !.ports = ps,
                                  !.before = NewContext(inPort),
                                  !.heap = <<NewContext(inPort)>>]

\* ExecuteWithResults: request.Port == "" and executeOnTarget(target, ...),
\* which reads the input of the object it is given
CtxPortless ==
    /\ ctxs.phase = "start"
    /\ ctxs' = [ctxs EXCEPT
                  !.phase = "scan",
                  !.i = 1,
                  !.used = IF Len(ctxs.ports) = 0 THEN Append(@, Target) ELSE @]
    /\ UNCHANGED <<runVars, callVars, ex, firstUnits, din, mx, http, inst>>

\* getOpenPorts: one round of its loop; the dial succeeds or fails
CtxProbe ==
    /\ ctxs.phase = "scan"
    /\ Len(ctxs.ports) # 1
    /\ ctxs.i <= Len(ctxs.ports)
    /\ \E dialled \in BOOLEAN :
        ctxs' = [ctxs EXCEPT
                   !.heap = scanInput(@, ctxs.ports[ctxs.i]),
                   !.i = @ + 1,
                   !.open = IF dialled THEN Append(@, ctxs.ports[ctxs.i]) ELSE @]
    /\ UNCHANGED <<runVars, callVars, ex, firstUnits, din, mx, http, inst>>

\* getOpenPorts returns: a single candidate port as it is, else the open ports;
\* the execution ends when there is none
CtxScanned ==
    /\ ctxs.phase = "scan"
    /\ Len(ctxs.ports) = 1 \/ ctxs.i > Len(ctxs.ports)
    /\ LET open == IF Len(ctxs.ports) = 1 THEN ctxs.ports ELSE ctxs.open
       IN ctxs' = [ctxs EXCEPT
                     !.phase = IF Len(open) = 0 THEN "done" ELSE "ports",
                     !.open = open,
                     !.i = 1]
    /\ UNCHANGED <<runVars, callVars, ex, firstUnits, din, mx, http, inst>>

\* ExecuteWithResults: one round of `for _, port := range ports`
CtxPort ==
    /\ ctxs.phase = "ports"
    /\ ctxs.i <= Len(ctxs.open)
    /\ LET heap == portInput(ctxs.heap, ctxs.open[ctxs.i])
       IN ctxs' = [ctxs EXCEPT !.heap = heap,
                               !.i = @ + 1,
                               !.used = Append(@, Len(heap))]
    /\ UNCHANGED <<runVars, callVars, ex, firstUnits, din, mx, http, inst>>

\* the errgroup function returns nil
CtxReturn ==
    /\ ctxs.phase = "ports"
    /\ ctxs.i > Len(ctxs.open)
    /\ ctxs' = [ctxs EXCEPT !.phase = "done"]
    /\ UNCHANGED <<runVars, callVars, ex, firstUnits, din, mx, http, inst>>

CtxNext == CtxPortless \/ CtxProbe \/ CtxScanned \/ CtxPort \/ CtxReturn

CtxSpec == CtxInit /\ [][CtxNext]_vars

\* ------------------------------------- DNS executions by the input they get

\* A DNS template of any query type and any input. The pool is as large as
\* PayloadConcurrency asks for, so that it is never resized.
DinInit ==
    /\ request \in DnsRequests
    /\ request.Threads = 1
    /\ target = [ok |-> TRUE, port |-> 0]
    /\ openSet = {}
    /\ options = [PayloadConcurrency |-> 1, DisableClustering |-> FALSE]
    /\ InitRun
    /\ ex = Idle
    /\ FirstIdle
    /\ ctxs = Idle
    /\ mx = Idle
    /\ http = Idle
    /\ inst = Idle
    /\ \E question \in QuestionTypes, input \in DnsInputs :
        din = [NoDnsInput EXCEPT !.phase = "new", !.question = question,
                                 !.input = input]

\* ExecuteWithResults up to the payload loop or the single request: the
\* domain of the input, parseDNSInput and the pool
DinStart ==
    /\ pc = "start"
    /\ din.phase = "new"
    /\ LET parsed == parseDNSInput(din.question, InputDomain(din.input)) IN
        /\ din' = [din EXCEPT !.phase = "parsed", !.domain = parsed.host]
        /\ IF parsed.err # "nil"
           THEN /\ retErr' = "build"
                /\ pc' = "ret"
                /\ UNCHANGED <<shouldFollowGlobal, swgSize>>
           ELSE IF request.nPayloads = 0
                THEN /\ pc' = "single"
                     /\ UNCHANGED <<retErr, shouldFollowGlobal, swgSize>>
                ELSE /\ shouldFollowGlobal' = (request.Threads = options.PayloadConcurrency)
                     /\ swgSize' = request.Threads
                     /\ pc' = "iter"
                     /\ UNCHANGED retErr
    /\ UNCHANGED <<configVars, ex, firstUnits, ctxs, mx, http, inst, options,
                   knobChanges, iterIdx, resizeTo, wk, multiErr, events, sendQ,
                   netVars, closerPc, chanVars, histVars>>

DinNext ==
    \/ DinStart
    \/ Checkpoint
    \/ SwgAdd
    \/ \E w \in Workers : DnsWorkerExecute(w)
    \/ \E w \in Workers : DnsWorkerSend(w)
    \/ DnsWait
    \/ DnsSingle
    \/ OnResult
    \/ CloserWait
    \/ CloserSend
    \/ CloserClose

DinSpec == DinInit /\ [][DinNext]_vars

\* ----------------------------------------------- the mutex on its own

\* The workers of one pool, all started; the mutex m is free.
MxInit ==
    /\ request = NoRequest
    /\ target = [ok |-> TRUE, port |-> 0]
    /\ openSet = {}
    /\ options = [PayloadConcurrency |-> 1, DisableClustering |-> FALSE]
    /\ InitRun
    /\ ex = Idle
    /\ FirstIdle
    /\ ctxs = Idle
    /\ din = Idle
    /\ http = Idle
    /\ inst = Idle
    /\ \E proto \in {"dns", "network"} :
        mx = [NoMutex EXCEPT
                !.phase = "pool", !.proto = proto,
                !.w = [k \in Workers |->
                         [at |-> "execute", err |-> FALSE, access |-> "none"]]]

\* request.execute or executeRequestWithPayloads returns
MxExecute(w) ==
    /\ mx.phase = "pool"
    /\ mx.w[w].at = "execute"
    /\ \E err \in BOOLEAN :
        mx' = [mx EXCEPT !.w[w].at = workerNext(mx.proto, "execute", err),
                         !.w[w].err = err]
    /\ UNCHANGED <<runVars, callVars, ex, firstUnits, ctxs, din, http, inst>>

\* m.Lock() returns
MxLock(w) ==
    /\ mx.phase = "pool"
    /\ mx.w[w].at = "lock"
    /\ mx.holder = 0
    /\ mx' = [mx EXCEPT !.holder = w,
                        !.w[w].at = workerNext(mx.proto, "lock", mx.w[w].err)]
    /\ UNCHANGED <<runVars, callVars, ex, firstUnits, ctxs, din, http, inst>>

\* multiErr = multierr.Append(multiErr, err), or events = append(events, ev)
MxAppend(w) ==
    /\ mx.phase = "pool"
    /\ mx.w[w].at = "append"
    /\ mx' = [mx EXCEPT
                !.multiErr = IF mx.w[w].err THEN @ + 1 ELSE @,
                !.events = IF mx.w[w].err THEN @ ELSE @ + 1,
                !.w[w].access = IF mx.holder = w THEN "locked" ELSE "unlocked",
                !.w[w].at = workerNext(mx.proto, "append", mx.w[w].err)]
    /\ UNCHANGED <<runVars, callVars, ex, firstUnits, ctxs, din, http, inst>>

\* m.Unlock()
MxUnlock(w) ==
    /\ mx.phase = "pool"
    /\ mx.w[w].at = "unlock"
    /\ mx' = [mx EXCEPT !.holder = IF @ = w THEN 0 ELSE @,
                        !.w[w].at = workerNext(mx.proto, "unlock", mx.w[w].err)]
    /\ UNCHANGED <<runVars, callVars, ex, firstUnits, ctxs, din, http, inst>>

\* the consumer receives what the DNS worker sends
MxSend(w) ==
    /\ mx.phase = "pool"
    /\ mx.w[w].at = "send"
    /\ mx' = [mx EXCEPT !.w[w].at = workerNext(mx.proto, "send", mx.w[w].err)]
    /\ UNCHANGED <<runVars, callVars, ex, firstUnits, ctxs, din, http, inst>>

MxNext ==
    \/ \E w \in Workers : MxExecute(w)
    \/ \E w \in Workers : MxLock(w)
    \/ \E w \in Workers : MxAppend(w)
    \/ \E w \in Workers : MxUnlock(w)
    \/ \E w \in Workers : MxSend(w)

MxSpec == MxInit /\ [][MxNext]_vars

\* ------------------------------------------- the HTTP builder on its own

\* A request generator, a target and the arguments of Make. Either a raw
\* request whose text is any data of up to MaxData characters, with no
\* payloads; or a request of any kind with {{BaseURL}} and a path as its
\* data, with and without a payload, dynamic values, a header and an
\* interactsh client. The caller hands the same payloads to every build
\* (reuse) or an equal new mapping to each.
HttpInit ==
    /\ request = NoRequest
    /\ target = [ok |-> TRUE, port |-> 0]
    /\ openSet = {}
    /\ options = [PayloadConcurrency |-> 1, DisableClustering |-> FALSE]
    /\ InitRun
    /\ ex = Idle
    /\ FirstIdle
    /\ ctxs = Idle
    /\ din = Idle
    /\ mx = Idle
    /\ inst = Idle
    /\ \E inPort \in {<<>>, <<"1">>} :
        \/ \E data \in SeqsUpTo(DataChars, MaxData) :
            http = [NoBuilds EXCEPT !.phase = "build", !.inPort = inPort,
                                    !.tpl.kind = "raw", !.data = data]
        \/ \E tpl \in Templates, reuse \in BOOLEAN,
              data \in {<<"B">>, <<"B", "/", "P">>, <<"B", "/", "M">>,
                        <<"B", ":", "1", "/", "P">>},
              payloads \in {<<>>} \cup {[p |-> v] : v \in PayloadValues},
              dynamicValues \in {<<>>, [p |-> Value("string", <<"/">>)]} :
            http = [NoBuilds EXCEPT !.phase = "build", !.inPort = inPort,
                                    !.tpl = tpl, !.data = data, !.reuse = reuse,
                                    !.original = payloads, !.payloads = payloads,
                                    !.dynamicValues = dynamicValues]

\* one call of Make
HttpBuild ==
    /\ http.phase = "build"
    /\ Len(http.builds) < MaxBuilds
    /\ LET payloads == IF http.reuse THEN http.payloads ELSE http.original
           made == HttpMake(http.tpl, http.inPort, http.data, payloads,
                            http.dynamicValues, http.gen)
       IN http' = [http EXCEPT !.payloads = made.payloads,
                               !.gen = made.generated.gen,
                               !.builds = Append(@, made)]
    /\ UNCHANGED <<runVars, callVars, ex, firstUnits, ctxs, din, mx, inst>>

HttpNext == HttpBuild

HttpSpec == HttpInit /\ [][HttpNext]_vars

\* ------------------------------------------- the installer on its own

\* A template directory with up to MaxFiles files whose checksums are about
\* to be written, or an archive entry that is about to be unpacked.
InstInit ==
    /\ request = NoRequest
    /\ target = [ok |-> TRUE, port |-> 0]
    /\ openSet = {}
    /\ options = [PayloadConcurrency |-> 1, DisableClustering |-> FALSE]
    /\ InitRun
    /\ ex = Idle
    /\ FirstIdle
    /\ ctxs = Idle
    /\ din = Idle
    /\ mx = Idle
    /\ http = Idle
    /\ \/ \E checksumMap \in ChecksumMaps :
            inst = [NoInstall EXCEPT !.phase = "checksums", !.checksumMap = checksumMap]
       \/ \E e \in Entries :
            inst = [NoInstall EXCEPT !.phase = "entry", !.entry = e]

\* writeChecksumFileInDir: the map is ranged over in some order
InstWriteChecksums ==
    /\ inst.phase = "checksums"
    /\ \E order \in RangeOrders(inst.checksumMap) :
        inst' = [inst EXCEPT !.phase = "written",
                             !.file = writeChecksumFileInDir(inst.checksumMap, order)]
    /\ UNCHANGED <<runVars, callVars, ex, firstUnits, ctxs, din, mx, http>>

\* getChecksumFromDir reads the file back
InstReadChecksums ==
    /\ inst.phase = "written"
    /\ inst' = [inst EXCEPT !.phase = "read",
                            !.allChecksums = getChecksumFromDir(inst.file)]
    /\ UNCHANGED <<runVars, callVars, ex, firstUnits, ctxs, din, mx, http>>

\* the callback of writeTemplatestoDisk for one entry: getAbsoluteFilePath,
\* and os.WriteFile unless the path is empty
InstEntry ==
    /\ inst.phase = "entry"
    /\ LET res == getAbsoluteFilePath(TemplateDir, inst.entry)
       IN inst' = [inst EXCEPT
                     !.phase = "unpacked",
                     !.res = res,
                     !.written = IF res.skip THEN {} ELSE {res.path}]
    /\ UNCHANGED <<runVars, callVars, ex, firstUnits, ctxs, din, mx, http>>

InstNext == InstWriteChecksums \/ InstReadChecksums \/ InstEntry

InstSpec == InstInit /\ [][InstNext]_vars

\* ------------------------------------------------------------ claims

Closed == closedCount > 0
Finished == closerPc = "done"
PoolActive == pc \in {"iter", "resize", "add", "wait"}
OneAddressOnePort ==
    \/ request.proto = "dns"
    \/ Len(request.addresses) = 1 /\ Len(request.ports) <= 1

\* C1: the results channel is closed exactly once: never twice, and once the
\* closing goroutine has finished it has been closed (DNS and network, every
\* outcome).
C1_ClosedExactlyOnce ==
    /\ closedCount <= 1
    /\ Finished => closedCount = 1
    /\ (pc = "ret" /\ closerPc = "close") => closedCount = 0

C1_Witness ==
    /\ Finished
    /\ closedCount = 1
    /\ request.proto = "network"
    /\ retErr = "portscan"
    /\ rcv.error = 1

\* C2: nothing is sent on the channel after it was closed, and when it is
\* closed no worker holds a slot, the errgroup goroutine has returned and no
\* event waits to be sent.
C2_CloseAfterDrain ==
    /\ ~panicked
    /\ Closed => /\ InFlight = 0
                 /\ \A w \in Workers : wk[w].pc \in {"idle", "done"}
                 /\ pc = "ret"
                 /\ sendQ = <<>>

C2_Witness ==
    /\ Closed
    /\ request.proto = "dns"
    /\ nDispatched >= 2
    /\ rcv.event + rcv.nil >= 2

\* C3: under the fairness of FairSpec every execution eventually closes the
\* results channel.
C3_EventuallyClosed == <>(closedCount = 1)

C3_Witness ==
    /\ Closed
    /\ nDispatched >= 2
    /\ nErr >= 1
    /\ knobChanges >= 1

\* C4: with N >= 1 payloads, one address and one port, the consumer receives at
\* most N envelopes that carry a successful event and at most one error
\* envelope.
C4_AtMostNEvents ==
    (request.nPayloads >= 1 /\ OneAddressOnePort) =>
        /\ rcv.event <= request.nPayloads
        /\ rcv.error <= 1

C4_Witness ==
    /\ Closed
    /\ request.nPayloads = 2
    /\ OneAddressOnePort
    /\ rcv.event = 2

\* C5: an error envelope is the last envelope: once it was received nothing
\* else is received, there is only one, every worker has finished and the
\* errgroup goroutine has returned.
C5_ErrorIsFinal ==
    rcv.error > 0 =>
        /\ tail = "error"
        /\ rcv.error = 1
        /\ pc = "ret"
        /\ InFlight = 0
        /\ sendQ = <<>>

C5_Witness ==
    /\ Closed
    /\ rcv.error = 1
    /\ rcv.event >= 1
    /\ tail = "error"

\* C6 as stated: when a pool variant returned an error, exactly one error
\* envelope was received by the time the channel is closed (DNS and network).
C6_PoolErrorIsOneErrorEnvelope ==
    (Closed /\ nErr > 0) => rcv.error = 1

\* C6 amended: in the DNS executor the aggregate is sent as exactly one error
\* envelope; in the network executor no error envelope is sent for it, the
\* address gets one event with an empty response instead.
C6_PoolErrorPerProtocol ==
    (Closed /\ nErr > 0) =>
        IF request.proto = "dns"
        THEN rcv.error = 1 /\ rcv.empty = 0
        ELSE rcv.error = 0 /\ rcv.empty >= 1

C6_Witness ==
    /\ Closed
    /\ nErr > 0
    /\ request.proto = "network"
    /\ rcv.empty = 1

\* C7 as stated: a variant that fails drops only itself: every mapping of the
\* iterator was dispatched and every event a variant returned was received.
C7_OtherVariantsEmitted ==
    (Closed /\ request.nPayloads >= 1 /\ OneAddressOnePort /\ nDispatched > 0) =>
        /\ nDispatched = request.nPayloads
        /\ rcv.event = nOk

\* C8: the workers holding a slot never outnumber the pool size, and the pool
\* size is Threads while the pool does not follow the global option.
C8_PoolBound ==
    /\ InFlight <= swgSize
    /\ (PoolActive /\ ~shouldFollowGlobal) => swgSize = request.Threads

C8_Witness ==
    /\ pc = "add"
    /\ ~shouldFollowGlobal
    /\ InFlight = swgSize
    /\ swgSize = 1
    /\ knobChanges = 1

C10_AddressExecutedOnce ==
    ~options.DisableClustering =>
        \A i, j \in 1..Len(execLog) :
            i # j => execLog[i].address # execLog[j].address

C10_Witness ==
    /\ Closed
    /\ ~options.DisableClustering
    /\ Len(ports) = 2
    /\ Len(request.addresses) = 2
    /\ Len(execLog) = 1

\* the (address, tls) pairs the address entries resolve to over the calls of
\* executeOnTarget of this execution
Triples ==
    {[address |-> ActualAddress(request.addresses[i], targetLog[k].input),
      tls |-> request.addresses[i].tls] :
        i \in 1..Len(request.addresses), k \in 1..Len(targetLog)}

\* C11 as stated: with clustering enabled every (host, port, tls) triple the
\* address entries resolve to is handed to executeAddress exactly once; two
\* entries with the same address and different TLS flags are both executed.
C11_TripleExecutedOnce ==
    (/\ Closed
     /\ ~options.DisableClustering
     /\ target.ok
     /\ \A t \in Triples : t.address # 0) =>
        /\ {execLog[k] : k \in 1..Len(execLog)} = Triples
        /\ \A i, j \in 1..Len(execLog) : i # j => execLog[i] # execLog[j]

\* the probe of candidate port p connects
Accepted(p) == target.ok /\ UseNetworkPort(target.port, p) \in openSet

LiteralPorts == {request.addresses[i].port : i \in 1..Len(request.addresses)} \ {0}

\* C12: with several candidate ports of which some but not all accept the
\* probe, executeOnTarget is called for exactly the accepting ports, in
\* template order; an address that takes its port from the input is executed
\* on an accepting port only; the probe errors are kept out of the channel.
C12_OpenPortsOnly ==
    (/\ Closed
     /\ Len(request.ports) > 1
     /\ \E i \in 1..Len(request.ports) : Accepted(request.ports[i])
     /\ \E i \in 1..Len(request.ports) : ~Accepted(request.ports[i])) =>
        /\ [k \in 1..Len(targetLog) |-> targetLog[k].port]
                = SelectSeq(request.ports, Accepted)
        /\ \A k \in 1..Len(execLog) :
                execLog[k].address \in openSet \cup LiteralPorts
        /\ scanErrs > 0
        /\ retErr = "none"
        /\ rcv.error = 0

C12_Witness ==
    /\ Closed
    /\ request.ports = <<1, 2>>
    /\ openSet = {2}
    /\ Len(targetLog) = 1
    /\ execLog = <<[address |-> 2, tls |-> FALSE]>>
    /\ rcv.event = 1

\* C13: with several candidate ports of which none accepts the probe, the
\* execution returns the combination of one error per port, the consumer
\* receives it as the only envelope, and executeOnTarget is never called.
C13_NoOpenPortFails ==
    (/\ Closed
     /\ Len(request.ports) > 1
     /\ \A i \in 1..Len(request.ports) : ~Accepted(request.ports[i])) =>
        /\ retErr = "portscan"
        /\ scanErrs = Len(request.ports)
        /\ rcv = [event |-> 0, nil |-> 0, empty |-> 0, error |-> 1]
        /\ targetLog = <<>>
        /\ execLog = <<>>

C13_Witness ==
    /\ Closed
    /\ target.ok
    /\ Len(request.ports) = 2
    /\ openSet = {}
    /\ nProbes = 2
    /\ rcv.error = 1

\* C14: with exactly one candidate port the port scan dials nothing and
\* executeOnTarget is called for that port, whether it is open or not; every
\* address entry is then handed to executeAddress unless it was visited.
C14_SinglePortNoProbe ==
    (Closed /\ Len(request.ports) = 1) =>
        /\ nProbes = 0
        /\ scanErrs = 0
        /\ [k \in 1..Len(targetLog) |-> targetLog[k].port] = request.ports
        /\ target.ok => (retErr = "none" /\ Len(execLog) >= 1)

C14_Witness ==
    /\ Closed
    /\ Len(request.ports) = 1
    /\ target.ok
    /\ openSet = {}
    /\ nProbes = 0
    /\ Len(execLog) >= 1

\* the wire sends of the request: the DNS query, the writes to the connection
Sends == {i \in 1..Len(ex.res.wire) : ex.res.wire[i] \in {"send", "write"}}

\* C15 as stated: every wire send of a request comes right after a Take of the
\* rate limiter, in the DNS and in the network executor.
C15_TakeBeforeEverySend ==
    \A i \in Sends : i > 1 /\ ex.res.wire[i - 1] = "take"

\* C16 as stated: a request aborted for an unresolved variable has sent
\* nothing, not even the inputs before the unresolved one.
C16_UnresolvedSendsNothing ==
    ex.fault.kind \in Unresolved => Sends = {}

\* C16 amended: a DNS request aborted for an unresolved variable has not sent
\* the query; a network request aborted at input k has written the k - 1
\* inputs before it, and neither input k nor a later one.
C16_UnresolvedInputNotWritten ==
    ex.fault.kind \in Unresolved =>
        IF ex.proto = "dns"
        THEN ex.res.wire = <<>>
        ELSE /\ Cardinality(Sends) = ex.fault.at - 1
             /\ ex.res.ret = "err"

C16_Witness ==
    /\ ex.proto = "network"
    /\ Len(ex.inputs) = 2
    /\ ex.fault = [kind |-> "unresolved", at |-> 2]
    /\ Cardinality(Sends) = 1

\* C17 as stated: a request aborted for an unresolved variable increments the
\* failed-request counter by one and leaves the requests counter alone.
C17_UnresolvedCountsAsFailed ==
    ex.fault.kind \in Unresolved =>
        /\ ex.res.failed = 1
        /\ ex.res.requests = 0
        /\ progress.failed >= 1

\* the calls of execute or executeRequestWithPayloads of a finished execution
Calls ==
    IF request.nPayloads > 0 THEN nDispatched
    ELSE IF request.proto = "dns" THEN (IF target.ok THEN 1 ELSE 0)
    ELSE Cardinality({k \in 1..Len(execLog) : execLog[k].address # 0})

\* the calls of executeAddress for an address that has no port (port 0)
NoPortCalls == Cardinality({k \in 1..Len(execLog) : execLog[k].address = 0})

\* C18 as stated: a variant aborted for an unresolved variable pushes no
\* envelope: when every request of the execution was aborted that way the
\* consumer receives no event envelope at all, neither empty nor nil.
C18_UnresolvedPushesNothing ==
    (Closed /\ nUnresolved >= 1 /\ nUnresolved = Calls /\ NoPortCalls = 0) =>
        rcv.event + rcv.nil + rcv.empty = 0

\* C18 amended: a variant aborted for an unresolved variable produces no event
\* with a response, but an envelope is pushed for it: in the DNS executor one
\* envelope with a nil event per aborted variant (as for a variant of the pool
\* that returned an error), in the network executor one event with an empty
\* response for the address of the variant.
C18_UnresolvedPushesEnvelope ==
    Closed =>
        IF request.proto = "dns"
        THEN rcv.nil = nUnresolved + nErr
        ELSE /\ nUnresolved > 0 => rcv.empty >= 1
             /\ request.nPayloads = 0 => rcv.empty >= nUnresolved

C18_Witness ==
    /\ Closed
    /\ request.proto = "dns"
    /\ request.nPayloads = 2
    /\ nUnresolved = 2
    /\ rcv.nil = 2
    /\ rcv.error = 0

C20_NoPortAborts ==
    (Closed /\ NoPortCalls > 0) =>
        /\ rcv.error = 1
        /\ execLog[Len(execLog)].address = 0
        /\ NoPortCalls = 1

\* C20 amended: an address entry without a port is counted as a failed
\* request and gets one event with an empty response; no error envelope is
\* sent for it and the later address entries and ports are still executed.
C20_NoPortIsEmptyEvent ==
    (Closed /\ NoPortCalls > 0) =>
        /\ retErr = "none"
        /\ rcv.error = 0
        /\ rcv.empty >= NoPortCalls
        /\ progress.failed >= NoPortCalls
        /\ \A t \in Triples : \E k \in 1..Len(execLog) : execLog[k].address = t.address

C20_Witness ==
    /\ Closed
    /\ request.addresses = <<[port |-> 0, tls |-> FALSE], [port |-> 1, tls |-> FALSE]>>
    /\ execLog = <<[address |-> 0, tls |-> FALSE], [address |-> 1, tls |-> FALSE]>>
    /\ rcv.empty = 1
    /\ rcv.event = 1
    /\ progress.failed = 1


\* ---------------------------------------------- claims: auth provider

\* secrets that declare a domain equal, ignoring case and surrounding white
\* space, to the normalized address; secrets with a pattern that matches it
DomainStrategies(addr) ==
    {i \in 1..Len(auth.file.secrets) :
        \E j \in 1..Len(auth.file.secrets[i].Domains) :
            EqualFold(TrimSpace(auth.file.secrets[i].Domains[j]), NormalizedAddr(addr))}
PatternStrategies(addr) ==
    {i \in 1..Len(auth.file.secrets) :
        \E j \in 1..Len(auth.file.secrets[i].DomainsRegex) :
            /\ Compiles(auth.file.secrets[i].DomainsRegex[j])
            /\ MatchString(auth.file.secrets[i].DomainsRegex[j], NormalizedAddr(addr))}

\* C21: LookupAddr asks the exact domains before the patterns: for an address
\* that equals a declared domain the strategy returned is one declared for
\* that domain, also when a pattern of another secret matches; an address
\* that no domain and no pattern matches gets the nil strategy.
C21_DomainsBeforePatterns ==
    auth.looked =>
        /\ DomainStrategies(auth.addr) # {} =>
                auth.result \in DomainStrategies(auth.addr)
        /\ (DomainStrategies(auth.addr) = {} /\ PatternStrategies(auth.addr) = {}) =>
                auth.result = 0

C21_Witness ==
    /\ auth.looked
    /\ DomainStrategies(auth.addr) # {}
    /\ PatternStrategies(auth.addr) \ DomainStrategies(auth.addr) # {}
    /\ auth.result \in DomainStrategies(auth.addr)

\* C22: an address that matches no exact domain and the patterns of two or
\* more secrets gets the strategy of the pattern declared first.
C22_FirstDeclaredPattern ==
    (/\ auth.looked
     /\ DomainStrategies(auth.addr) = {}
     /\ Cardinality(PatternStrategies(auth.addr)) >= 2) =>
        \A i \in PatternStrategies(auth.addr) : auth.result <= i

\* C23: the lookup of h:80 and of h:443 returns what the lookup of h returns.
C23_DefaultPortSameAsNoPort ==
    (auth.looked /\ auth.addr.port \in {80, 443}) =>
        auth.result \in LookupAddr(auth.f, [auth.addr EXCEPT !.port = 0])

\* C24: a provider is returned only for a file with at least one secret and
\* with valid secrets only; a file without secrets gives ErrNoSecrets, an
\* invalid secret gives an error, and in both cases no provider is returned
\* and no lookup index is built.
C24_ProviderOnlyFromValidSecrets ==
    auth.phase = "made" =>
        LET secrets == auth.file.secrets
            invalid == \E i \in 1..Len(secrets) : ~secrets[i].valid
        IN /\ auth.f.provider =>
                (auth.file.readable /\ Len(secrets) >= 1 /\ ~invalid)
           /\ (auth.file.readable /\ Len(secrets) = 0) => auth.f.err = "ErrNoSecrets"
           /\ invalid => auth.f.err \notin {"nil", "ErrNoSecrets"}
           /\ ~auth.f.provider =>
                (/\ auth.f.err # "nil"
                 /\ ~auth.f.domains.made
                 /\ ~auth.f.compiled.made)

C24_Witness ==
    /\ auth.phase = "made"
    /\ Len(auth.file.secrets) = 2
    /\ auth.file.secrets[1].valid
    /\ auth.file.secrets[1].Domains # <<>>
    /\ ~auth.file.secrets[2].valid
    /\ ~auth.f.provider


\* -------------------------------------------- claims: variable layers

Merged == lay.phase \in {"merged", "emitted"}

\* C25: a key that the payload iterator's mapping defines has the payload's
\* value in the mapping the request is built from, in the DNS, the network
\* and the HTTP builder.
C25_PayloadWins ==
    (Merged /\ "payload" \in lay.defined) => lay.vars["k"] = "payload"

\* C26 as stated: a key defined both as a template constant and as a
\* template-context variable holds the template-context value in the merged
\* mapping of the DNS and of the network executor.
C26_CtxOverConstant ==
    (/\ Merged
     /\ lay.proto \in {"dns", "network"}
     /\ {"constants", "ctx"} \subseteq lay.defined) => lay.base["k"] = "ctx"

\* C26: the constants are merged after the defaults, the template-context
\* variables and every other layer of the executor's mapping: a key defined
\* as a template constant holds the constant's value in the merged mapping of
\* the DNS and of the network executor, also when the template context
\* defines it.
C26_ConstantOverCtx ==
    (/\ Merged
     /\ lay.proto \in {"dns", "network"}
     /\ "constants" \in lay.defined) => lay.base["k"] = "constants"

C26_Witness ==
    /\ Merged
    /\ lay.proto = "network"
    /\ {"constants", "ctx", "defaults"} \subseteq lay.defined
    /\ lay.base["k"] = "constants"

\* the value a mapping holds for the key
ValueIn(m) == IF "k" \in DOMAIN m THEN m["k"] ELSE "absent"

\* C27: the event holds, for a key, the value of the last layer that defines
\* it in the order response, template context, previous, payload variables
\* (the mapping the request was built from), captured inputs; in the DNS and
\* in the network event.
C27_EventOrder ==
    lay.phase = "emitted" =>
        ValueIn(lay.event) =
            IF "captured" \in lay.defined THEN "captured"
            ELSE IF "k" \in DOMAIN lay.vars THEN lay.vars["k"]
            ELSE IF "previous" \in lay.defined THEN "previous"
            ELSE IF "ctx" \in lay.defined THEN "ctx"
            ELSE IF "response" \in lay.defined THEN "response"
            ELSE "absent"


\* ------------------------------------------------------ claims: captures

\* inputs with a capture name and a read length, among the inputs done
Captures == {i \in 1..cap.i : cap.inputs[i].Name # "" /\ cap.inputs[i].Read}

\* the capture that was read last under the name of capture i before input j
LastCapture(i, j) ==
    CHOOSE l \in Captures :
        /\ l < j
        /\ cap.inputs[l].Name = cap.inputs[i].Name
        /\ \A m \in Captures :
                (m < j /\ cap.inputs[m].Name = cap.inputs[i].Name) => m <= l

Holds(m, k, v) == k \in DOMAIN m /\ m[k] = v

\* C28 as stated: the bytes read after every input with a capture name are,
\* under that name, in the event and in the mapping that every later input
\* is substituted with.
C28_CaptureRoundTrip ==
    \A i \in Captures :
        /\ cap.phase = "emitted" => Holds(cap.event, cap.inputs[i].Name, Bytes(i))
        /\ \A j \in (i + 1)..cap.i : Holds(cap.seen[j], cap.inputs[i].Name, Bytes(i))

\* C28: under the name of a capture, the event and the mapping of every later
\* input hold the bytes read after the last input that was read under that
\* name: the bytes of the capture itself unless a later input has its name.
C28_LastCaptureRoundTrip ==
    \A i \in Captures :
        /\ cap.phase = "emitted" =>
                Holds(cap.event, cap.inputs[i].Name, Bytes(LastCapture(i, cap.i + 1)))
        /\ \A j \in (i + 1)..cap.i :
                Holds(cap.seen[j], cap.inputs[i].Name, Bytes(LastCapture(i, j)))

C28_Witness ==
    /\ cap.phase = "emitted"
    /\ cap.i = 2
    /\ cap.inputs[1].Name = "x"
    /\ cap.inputs[1].Read
    /\ cap.inputs[2].Name = "y"
    /\ "x" \in DOMAIN cap.payloads
    /\ cap.seen[2]["x"] = Bytes(1)
    /\ cap.event["x"] = Bytes(1)

\* C29: a variable that an internal extractor took from the bytes read after
\* an input is in the mapping that every later input is substituted with.
C29_ExtractedSeenLater ==
    \A i \in 1..cap.i : \A k \in cap.inputs[i].extracted :
        \A j \in (i + 1)..cap.i : k \in DOMAIN cap.seen[j] /\ cap.seen[j][k].kind = "extracted"


\* ------------------------------------------ claims: ConnReadNWithTimeout

\* C30: a read of ConnReadNWithTimeout whose deadline elapses after some bytes
\* were received returns those bytes and no error; a deadline that elapses
\* with no byte, and an error that is not a timeout, return an error and no
\* bytes; for n > 0 no more than n bytes are returned.
C30_PartialReadOnTimeout ==
    (rd.phase = "done" /\ rd.n >= 0) =>
        /\ (rd.read.err = "timeout" /\ rd.read.count > 0) =>
                (rd.res.err = "nil" /\ rd.res.bytes = Slice(rd.read.count))
        /\ ((rd.read.err = "timeout" /\ rd.read.count = 0) \/ rd.read.err = "other") =>
                (rd.res.err # "nil" /\ rd.res.bytes = NilSlice)
        /\ rd.n > 0 => rd.res.bytes.len <= rd.n

C30_Witness ==
    /\ rd.phase = "done"
    /\ rd.n = 2
    /\ rd.read = [count |-> 1, err |-> "timeout"]
    /\ rd.res = [bytes |-> Slice(1), err |-> "nil"]

\* C33: executing a network template leaves the caller's target context as it
\* was, at every moment of the execution and for any number of candidate
\* ports: the port scan and the per-port executions set the port on clones.
C33_TargetUntouched ==
    ctxs.phase # "idle" => ctxs.heap[Target] = ctxs.before

\* an execution that is over: two candidate ports were probed, one was found
\* open and executed on a clone whose input took the template's port
C33_Witness ==
    /\ ctxs.phase = "done"
    /\ Len(ctxs.ports) = 2
    /\ Len(ctxs.used) = 1
    /\ ctxs.heap[ctxs.used[1]] # ctxs.before
    /\ Len(ctxs.heap) = 4

\* the input of the execution at hand is an IP literal, as it is or as the
\* host of a URL, and the query type is not PTR
IPLiteralNotPTR ==
    /\ din.phase # "idle"
    /\ IsIP(InputDomain(din.input))
    /\ din.question # "PTR"

\* C34: an execution whose input is an IP literal and whose query type is not
\* PTR calls execute for no variant (no query is sent, no rate-limiter token
\* taken, no counter moved), emits no event, and has emitted exactly one
\* error envelope when the channel is closed; an IP literal with type PTR is
\* rewritten to its reverse-lookup name, and every other name keeps its text
\* and ends with a dot.
C34_DnsInput ==
    /\ IPLiteralNotPTR =>
        /\ progress = [requests |-> 0, failed |-> 0]
        /\ nUnresolved = 0 /\ nTransient = 0 /\ nDispatched = 0 /\ nOk = 0
        /\ rcv.event = 0 /\ rcv.nil = 0 /\ rcv.empty = 0
        /\ closedCount = 0 => rcv.error <= 1
        /\ closedCount > 0 => rcv.error = 1 /\ closedCount = 1
        /\ ~panicked
    /\ (din.phase = "parsed" /\ ~IPLiteralNotPTR) =>
        LET host == InputDomain(din.input) IN
        IF host.kind \in {"ip4", "ip6"}
        THEN din.domain = [kind |-> host.kind, dot |-> TRUE, arpa |-> TRUE]
        ELSE din.domain = [kind |-> host.kind, dot |-> TRUE, arpa |-> FALSE]

\* a rejected IPv6 literal of a TXT template: the execution is over, the
\* consumer has the error envelope and nothing else
C34_Witness ==
    /\ IPLiteralNotPTR
    /\ din.input.host.kind = "ip6"
    /\ din.question = "TXT"
    /\ request.nPayloads = 2
    /\ closerPc = "done"
    /\ rcv = [event |-> 0, nil |-> 0, empty |-> 0, error |-> 1]
    /\ tail = "error"

\* the workers that were handed a mapping: worker k runs the k-th mapping the
\* iterator yielded
Dispatched == {w \in Workers : wk[w].pc # "idle"}

\* the pools of the execution that ran to their end: executeAddress makes an
\* iterator and a pool at every address it executes, DNS makes one
CompletedPools ==
    IF request.proto = "network"
    THEN Cardinality({k \in 1..Len(execLog) : ~NoPort(execLog[k].address)})
            - (IF PoolActive THEN 1 ELSE 0)
    ELSE 0

\* C35: an iterator is traversed once, to exhaustion, and its mappings are
\* dispatched in the order it yields them, each exactly once: the mappings
\* dispatched so far are the first iterIdx ones whatever the workers have
\* completed, the loop is left only when the iterator is exhausted, and the
\* dispatches of an execution are one per mapping and pool.
C35_DispatchInYieldOrder ==
    /\ Dispatched = 1..iterIdx
    /\ iterIdx <= request.nPayloads
    /\ pc = "wait" => iterIdx = request.nPayloads
    /\ nDispatched = iterIdx + request.nPayloads * CompletedPools

\* two mappings were dispatched in order and the second completed first
C35_Witness ==
    /\ request.nPayloads = 2
    /\ pc = "wait"
    /\ nDispatched = 2
    /\ wk[1].pc = "run"
    /\ wk[2].pc = "done"

\* C36: a worker reads and writes multiErr and events only while it holds
\* the mutex of its pool, and no worker holds the mutex at a suspension
\* point: not inside execute or executeRequestWithPayloads (the dial, the
\* reads and writes, the Take) and not at the send on the results channel.
C36_MutexDiscipline ==
    mx.phase = "pool" =>
        \A w \in Workers :
            /\ mx.w[w].access # "unlocked"
            /\ mx.w[w].at = "append" => mx.holder = w
            /\ mx.w[w].at \in SuspensionPoints => mx.holder # w

\* a DNS pool: worker 1 recorded its error under the lock and waits at its
\* send while worker 2 holds the mutex
C36_Witness ==
    /\ mx.phase = "pool"
    /\ mx.proto = "dns"
    /\ mx.w[1].access = "locked"
    /\ mx.w[1].at = "send"
    /\ mx.holder = 2
    /\ mx.multiErr = 1

\* C38: one call of DNS execute or of network executeRequestWithPayloads
\* moves the Progress counters at most once: it adds one to the requests
\* counter, or one to the failed-requests counter, or leaves both alone.
C38_CountedAtMostOnce ==
    [][LET requests == progress'.requests - progress.requests
           failed == progress'.failed - progress.failed
       IN /\ requests \in {0, 1}
          /\ failed \in {0, 1}
          /\ requests + failed <= 1]_vars

\* two calls of a network request with two inputs: the first was counted as
\* failed, the second went through and was counted as a request
C38_Witness ==
    /\ ex.proto = "network"
    /\ Len(ex.inputs) = 2
    /\ ex.calls = 2
    /\ ex.fault.kind = "event"
    /\ progress = [requests |-> 1, failed |-> 1]

\* the call of UsePortFromPayload of the build made last
PortCall == http.builds[Len(http.builds)].port

\* template data has a token `{{BaseURL}}:N`: the first of them starts at
\* TokenAt, N is TokenPort
HasPortToken(data) ==
    \E i \in 1..(Len(data) - 2) :
        data[i] = "B" /\ data[i + 1] = ":" /\ data[i + 2] \in Digits
TokenAt(data) ==
    CHOOSE i \in 1..(Len(data) - 2) :
        /\ data[i] = "B" /\ data[i + 1] = ":" /\ data[i + 2] \in Digits
        /\ \A j \in 1..(i - 1) :
            ~(data[j] = "B" /\ data[j + 1] = ":" /\ data[j + 2] \in Digits)
TokenEnd(data) ==
    CHOOSE e \in (TokenAt(data) + 2)..Len(data) :
        /\ \A m \in (TokenAt(data) + 2)..e : data[m] \in Digits
        /\ e = Len(data) \/ data[e + 1] \notin Digits

\* C31: when the template data has `{{BaseURL}}:N`, the port of the URL
\* becomes N and the data loses exactly the `:N` after `{{BaseURL}}`, every
\* other character staying where it was; without such a token URL and data
\* stay as they were.
C31_PortOverride ==
    http.builds # <<>> =>
        LET data == PortCall.data IN
        IF HasPortToken(data)
        THEN /\ PortCall.out.parsed.port = SubSeq(data, TokenAt(data) + 2, TokenEnd(data))
             /\ PortCall.out.data = SubSeq(data, 1, TokenAt(data))
                                        \o SubSeq(data, TokenEnd(data) + 1, Len(data))
        ELSE /\ PortCall.out.parsed = PortCall.parsed
             /\ PortCall.out.data = data

\* the requests of the builds made so far: method, URL, headers, host, body
Requests == {http.builds[i].generated.request : i \in 1..Len(http.builds)}

\* C32 as stated: the builds of a generator for the same template, target,
\* payloads and dynamic values give the same request every time.
C32_SameRequest ==
    Cardinality(Requests) <= 1

\* a text with every interactsh URL replaced by the same word
MaskText(text) ==
    [i \in 1..Len(text) |->
        IF \E n \in 1..Len(OastURLs) : OastURLs[n] = text[i] THEN "u" ELSE text[i]]
MaskRequest(req) ==
    [method |-> MaskText(req.method), url |-> MaskText(req.url),
     host |-> MaskText(req.host), body |-> MaskText(req.body),
     headers |-> {[name |-> h.name, value |-> MaskText(h.value)] : h \in req.headers}]

\* C32: the builds of a generator for the same template, target, payloads and
\* dynamic values give the same method, URL, headers, host and body every
\* time, apart from the interactsh URLs that took the place of OAST markers,
\* also when every build is handed the payload map of the build before it.
C32_SameRequestButOastURLs ==
    Cardinality({MaskRequest(req) : req \in Requests}) <= 1

\* two builds that were handed the same payload map, for a template with an
\* interactsh client and a marker in its path and in its payload: the
\* requests differ in their URLs and in nothing else, and the payload of the
\* caller's map is the URL of the first build
C32_Witness ==
    /\ Len(http.builds) = 2
    /\ http.reuse
    /\ http.tpl.interactsh
    /\ http.tpl.kind = "model"
    /\ http.data = <<"B", "/", "M">>
    /\ http.original = [p |-> Value("string", <<"M">>)]
    /\ http.payloads = [p |-> Value("string", <<"u2">>)]
    /\ Cardinality(Requests) = 2

\* C37: every generatedRequest carries the final merged mapping that was used
\* to construct it, whichever path built it.
C37_CarriesFinalValues ==
    \A i \in 1..Len(http.builds) :
        LET generated == http.builds[i].generated IN
        /\ ~generated.dynamicValues.isNil
        /\ generated.dynamicValues.m = generated.used

\* C39: the map getChecksumFromDir reads from the .checksum file that
\* writeChecksumFileInDir wrote is the map that was written, for a directory
\* with any number of files.
C39_ChecksumRoundTrip ==
    inst.phase = "read" => inst.allChecksums = inst.checksumMap

\* a path is the directory or lies below it
Confined(path, dir) ==
    /\ Len(path) >= Len(dir)
    /\ SubSeq(path, 1, Len(dir)) = dir

\* the relative path of an entry leaves the template directory
Escapes(e) == ~Confined(CleanJoin(TemplateDir, e.rel), TemplateDir)

\* C40: every path getAbsoluteFilePath returns, the ignore-file path aside,
\* lies inside the template directory, and an entry whose relative path
\* leads to a parent or to a sibling directory, also one whose name starts
\* with the name of the template directory, gets the empty path and nothing
\* is written for it.
C40_PathConfinement ==
    inst.phase = "unpacked" =>
        /\ (~inst.res.skip /\ inst.res.path # IgnoreFilePath) =>
                Confined(inst.res.path, TemplateDir)
        /\ (Escapes(inst.entry) /\ EntryName(inst.entry) # ".nuclei-ignore") =>
                /\ inst.res.skip
                /\ inst.written = {}

====
